---- MODULE Spec2Model ----
(***************************************************************************)
(* Model of drovp/upscale: the cleanup ledger (Maid), the processor's      *)
(* image and video pipelines, the ffmpeg progress splitter and the         *)
(* directory-clone cleaner.                                                *)
(***************************************************************************)
EXTENDS Integers, Sequences, FiniteSets, TLC

VARIABLES
    \* ---- Maid (src/src/utils.ts 118-131)
    tasks,      \* this.tasks: sequence of [id, fail]
    calls,      \* cleanup() invocations: slot -> [st, arr, idx, live, snap]
    ran,        \* history: task invocations, sequence of [call, id]
    nextTask,   \* history: number of task() registrations so far
    \* ---- one job of the processor (src/src/processor.ts)
    pc,         \* where the job's async code is suspended
    next,       \* where control goes once the maid.cleanup() in progress is over
    running,    \* the external subprocesses that were spawned and have not ended
    trace,      \* history: what the job did, sequence of [ev, of, how]
    fs,         \* the temporary artifacts that exist on disk
    workingPath,\* image(): workingPath
    result,     \* the UpscaleResult of image()/video(), or Void
    poller,     \* upscale(): dirProgressDisposer ("none", "active", "disposed")
    scaleOpt,   \* options.scale
    upScale,    \* upscale(): scale
    currentScale,   \* image(), video(): currentScale
    twoPass,    \* video(): twoPass is set (TwoPassData) or false
    outputContainer,\* video(): outputContainer; image(): ffmpegJob.container
    input,      \* meta, what ffprobe() gave: container, width, height (image);
                \* container, extension of input.path, hasSubtitles (video)
    modelOpt,   \* options.model as upscale() read it
    formatOpt,  \* options.image.format as image() read it
    rescaleFilter,  \* image(): rescaleFilter, [undefined, width, height]
    videoOptions,   \* options.video as video() read it
    \* ---- one makeFfmpegProgressOrLogSplitter() closure (src/src/utils.ts 191-226)
    recentOutput,       \* text: a sequence of one-character strings
    duration,
    durationWontHappen,
    fed,        \* history: the names of the chunks passed in so far
    outs,       \* history: per chunk, the callbacks it made
    \* ---- one makeDirCloneCleaner() closure and the two directories
    \*      (src/src/utils.ts 65-113)
    sourceDir,          \* the files in sourceDir, each [name, ext]
    destinationDir,     \* the files in destinationDir
    sourceFiles,        \* [isNull, map]: null, or the Map as a set of [name, ext]
    cloned,
    isDisposed,
    timeoutId,          \* "pending" while a setTimeout(loop) is armed, else "none"
    tick,               \* where loop() is suspended, or "idle"
    newClonedFilenames,
    delIdx,             \* the position of the second for-of in newClonedFilenames
    tickNo,             \* history: the number of ticks begun
    reports,            \* history: the onProgress calls, <<completed, total>>
    detected,           \* history: [name, tick] of each name added to cloned
    deleted,            \* history: [name, ext, tick] of each deletePath() done
    disposeCalls,       \* history: the number of disposer calls
    disposedIn,         \* history: the tick in flight at the first disposer call, or 0
    \* ---- one call of execute() (src/src/utils.ts 136-186)
    handlers,   \* which of onLog, onStdout, onStderr the caller passed
    promise,    \* the returned promise: [state, with]
    doneIsLive, \* `done` is still the function of lines 172-181
    cpEvents,   \* history: the events the child process emitted
    sink,       \* history: the calls of onLog, onStdout, onStderr
    \* ---- one call of isoTimeToMS() (src/src/utils.ts 35-48)
    isoText,    \* its argument `text`
    isoTime,    \* [returned, ms]: the `time` it returned, once it has
    \* ---- two jobs at work in one directory (src/src/processor.ts)
    jobIds,     \* payload.id of each of the two jobs
    disk,       \* the temporary files on disk: [path, owner]
    clobbered,  \* history: a job overwrote or removed a file of the other
    \* ---- the audio arguments of video() (src/src/processor.ts 540-552)
    audioStreams,        \* input.audioStreams: the channels of each stream
    audioChannelBitrate, \* videoOptions.audioChannelBitrate
    audioArgs            \* [codec, bitrates], once chosen

maidVars == <<tasks, calls, ran, nextTask>>
\* What the job has read of its input and options so far.
readVars == <<input, modelOpt, formatOpt, rescaleFilter, videoOptions>>

jobVars == <<pc, next, running, trace, fs, workingPath, result, poller,
             scaleOpt, upScale, currentScale, twoPass, outputContainer, readVars>>

splitVars == <<recentOutput, duration, durationWontHappen, fed, outs>>

cleanVars == <<sourceDir, destinationDir, sourceFiles, cloned, isDisposed, timeoutId,
               tick, newClonedFilenames, delIdx, tickNo, reports, detected, deleted,
               disposeCalls, disposedIn>>

execVars == <<handlers, promise, doneIsLive, cpEvents, sink>>

isoVars == <<isoText, isoTime>>

pathVars == <<jobIds, disk, clobbered>>

audioVars == <<audioStreams, audioChannelBitrate, audioArgs>>

\* What a job of the processor does not touch.
offJob == <<splitVars, cleanVars, execVars, isoVars, pathVars, audioVars>>

vars == <<maidVars, jobVars, splitVars, cleanVars, execVars, isoVars, pathVars,
         audioVars>>

----------------------------------------------------------------------------
(* Bounds *)

MaxTasks == 3
MaxCalls == 1
MaxChunks == 3
MaxFrames == 3
MaxTicks == 3
MaxDisposals == 2
MaxData == 2
MaxFiles == 4

----------------------------------------------------------------------------
(* Maid: src/src/utils.ts 118-131 *)

Calls == 1..MaxCalls

\* How a registered function ends when it is called.
FailKinds == {"no", "throw", "reject"}

\* A cleanup() slot that has not been called.
\* (over is history: another cleanup() was running when this one was called.)
Idle == [st |-> "idle", arr |-> <<>>, idx |-> 0, live |-> FALSE, snap |-> <<>>,
         over |-> FALSE]

\* run = async (fn) => { await fn() } with no catch: a failing task rejects.
RunNoCatch(fn) == IF fn.fail = "no" THEN "resolved" ELSE "rejected"

\* run = async (fn) => { try { await fn() } catch {} }
Run(fn) == "resolved"

\* forget = () => (this.tasks = []): the ledger is a NEW array, so a
\* cleanup() already iterating keeps the old one and no longer sees pushes.
Detach(cs) == [c \in DOMAIN cs |-> [cs[c] EXCEPT !.live = FALSE]]

\* task = (fn) => this.tasks.push(fn): pushes onto the array object, which
\* an iterating cleanup() shares while it is still this.tasks.
Pushed(cs, fn) ==
    [c \in DOMAIN cs |->
        IF cs[c].live THEN [cs[c] EXCEPT !.arr = Append(@, fn)] ELSE cs[c]]

\* maid.task(fn)
Task(fn) ==
    /\ nextTask < MaxTasks
    /\ fn.id = nextTask + 1
    /\ nextTask' = nextTask + 1
    /\ tasks' = Append(tasks, fn)
    /\ calls' = Pushed(calls, fn)
    /\ UNCHANGED ran

\* A ledger that forget() leaves as it is.
NotForgotten(ts) == ts

\* this.tasks = [], line 125
Forgotten(ts) == <<>>

\* maid.forget()
Forget ==
    /\ tasks' = Forgotten(tasks)
    /\ calls' = Detach(calls)
    /\ UNCHANGED <<ran, nextTask>>

\* maid.cleanup() up to its first await: the for-of takes the iterator of
\* this.tasks and run(step) calls the first task synchronously; with an
\* empty ledger the loop is skipped and forget() runs at once.
CleanupCall(c) ==
    /\ calls[c].st = "idle"
    /\ IF tasks = <<>>
         THEN /\ tasks' = Forgotten(tasks)
              /\ calls' = [Detach(calls) EXCEPT ![c] = [Idle EXCEPT !.st = "resolved"]]
              /\ UNCHANGED ran
         ELSE /\ calls' = [calls EXCEPT ![c] =
                    [st |-> "awaiting", arr |-> tasks, idx |-> 1,
                     live |-> TRUE, snap |-> tasks,
                     over |-> \E d \in DOMAIN calls : calls[d].st = "awaiting"]]
              /\ ran' = Append(ran, [call |-> c, id |-> tasks[1].id])
              /\ UNCHANGED tasks
    /\ UNCHANGED nextTask

\* cleanup() resumed after `await this.run(step)`: the next task is called,
\* or the loop is over and forget() clears the ledger.
CleanupResume(c) ==
    LET k == calls[c] IN
    /\ k.st = "awaiting"
    /\ IF Run(k.arr[k.idx]) = "rejected"
         THEN /\ calls' = [calls EXCEPT ![c].st = "rejected", ![c].live = FALSE]
              /\ UNCHANGED <<tasks, ran>>
         ELSE IF k.idx < Len(k.arr)
         THEN /\ calls' = [calls EXCEPT ![c].idx = k.idx + 1]
              /\ ran' = Append(ran, [call |-> c, id |-> k.arr[k.idx + 1].id])
              /\ UNCHANGED tasks
         ELSE /\ tasks' = Forgotten(tasks)
              /\ calls' = [Detach(calls) EXCEPT ![c].st = "resolved", ![c].live = FALSE]
              /\ UNCHANGED ran
    /\ UNCHANGED nextTask

MaidInit ==
    /\ tasks = <<>>
    /\ calls = [c \in Calls |-> Idle]
    /\ ran = <<>>
    /\ nextTask = 0



----------------------------------------------------------------------------
(* execute(): src/src/utils.ts 136-186.  The child process emits 'data' on *)
(* stdout and stderr until it closes, 'error' at most once and 'close' at  *)
(* most once; 'close' carries the exit code, or null when the process was  *)
(* ended by a signal, or a negative errno after a failed spawn.            *)

Code(n) == [isNull |-> FALSE, n |-> n]
Null == [isNull |-> TRUE, n |-> 0]

\* What `done` is called with: (err) from 'error', (null, code) from 'close'.
Pending == [state |-> "pending", with |-> "", code |-> 0, output |-> <<>>]

\* done(err, code), lines 174-180: the state the promise goes to.  The
\* Error of line 177 is made of the exit code alone: its message holds no
\* text of the process.
Settle(err, code) ==
    IF err THEN [state |-> "rejected", with |-> "err", code |-> 0, output |-> <<>>]
    ELSE IF ~code.isNull /\ code.n > 0
    THEN [state |-> "rejected", with |-> "Process exited with code",
          code |-> code.n, output |-> <<>>]
    ELSE [state |-> "resolved", with |-> "", code |-> 0, output |-> <<>>]

Handlers == SUBSET {"onLog", "onStdout", "onStderr"}

Emitted(type) == \E i \in 1..Len(cpEvents) : cpEvents[i].type = type

\* The calls one 'data' event of a stream makes, lines 163-170.
OnData(stream, handler) ==
    (IF handler \in handlers THEN <<[cb |-> handler, of |-> stream]>> ELSE <<>>)
    \o (IF "onLog" \in handlers THEN <<[cb |-> "onLog", of |-> stream]>> ELSE <<>>)

\* cp.stdout.on('data', ...), lines 163-166
StdoutData ==
    /\ ~Emitted("close")
    /\ Cardinality({i \in 1..Len(cpEvents) : cpEvents[i].type = "data"}) < MaxData
    /\ cpEvents' = Append(cpEvents, [type |-> "data", of |-> "stdout", code |-> Null])
    /\ sink' = sink \o OnData("stdout", "onStdout")
    /\ UNCHANGED <<handlers, promise, doneIsLive>>

\* cp.stderr.on('data', ...), lines 167-170
StderrData ==
    /\ ~Emitted("close")
    /\ Cardinality({i \in 1..Len(cpEvents) : cpEvents[i].type = "data"}) < MaxData
    /\ cpEvents' = Append(cpEvents, [type |-> "data", of |-> "stderr", code |-> Null])
    /\ sink' = sink \o OnData("stderr", "onStderr")
    /\ UNCHANGED <<handlers, promise, doneIsLive>>

\* `done` without `done = () => {}`, every call deciding anew.
DoneEveryCall(err, code) ==
    /\ doneIsLive' = FALSE
    /\ promise' = Settle(err, code)

\* `done` called, lines 172-181: the first call settles the promise and
\* replaces `done` by a function that does nothing.
Done(err, code) ==
    IF doneIsLive
    THEN /\ doneIsLive' = FALSE
         /\ promise' = Settle(err, code)
    ELSE UNCHANGED <<doneIsLive, promise>>

\* cp.on('error', (err) => done(err)), line 183
OnError ==
    /\ ~Emitted("error")
    /\ cpEvents' = Append(cpEvents, [type |-> "error", of |-> "", code |-> Null])
    /\ Done(TRUE, Null)
    /\ UNCHANGED <<handlers, sink>>

\* The exit codes of a process that ran.
ExitCodes == {Code(0), Code(1), Code(2), Null}

\* cp.on('close', (code) => done(null, code)), line 184
OnClose(code) ==
    /\ ~Emitted("close")
    /\ code \in ExitCodes \/ (Emitted("error") /\ code = Code(-2))
    /\ cpEvents' = Append(cpEvents, [type |-> "close", of |-> "", code |-> code])
    /\ Done(FALSE, code)
    /\ UNCHANGED <<handlers, sink>>

\* No call of execute().
ExecIdle ==
    /\ handlers = {}
    /\ promise = Pending
    /\ doneIsLive = TRUE
    /\ cpEvents = <<>>
    /\ sink = <<>>

\* execute() has returned its promise, lines 151-184: the command was
\* logged and the process spawned.
ExecInit ==
    /\ handlers \in Handlers
    /\ promise = Pending
    /\ doneIsLive = TRUE
    /\ cpEvents = <<>>
    /\ sink = IF "onLog" \in handlers
              THEN <<[cb |-> "onLog", of |-> "Executing binary"]>> ELSE <<>>

----------------------------------------------------------------------------
(* One job: src/src/processor.ts.  The job's code runs from one await to   *)
(* the next without interruption, so each action is one such segment.      *)
(* Filesystem calls (mkdir, rm, stat) are taken to succeed; every external *)
(* subprocess may end well, exit nonzero or fail to spawn.                 *)

\* `void`: image() or video() returned no UpscaleResult.
Void == [tmpPath |-> "", container |-> ""]
NaN == -1

\* How a subprocess can end: exit code 0, ended by a signal, a nonzero exit
\* code, an 'error' event.
Outcomes == {"ok", "signal", "exit", "error"}

\* What `close` hands to `done` for an outcome (none for "error").
CloseCode(o) == CASE o = "ok" -> Code(0) [] o = "exit" -> Code(1) [] OTHER -> Null

\* `await execute(...)` returns rather than throws.
Resolves(o) == Settle(o = "error", CloseCode(o)).state = "resolved"

Ev(e, o, h) == [ev |-> e, of |-> o, how |-> h]

\* The job's ledger entry that deletes path p.
DeleteTask(p) == [id |-> p, fail |-> "no"]

\* options.scale (index.ts: the select's keys)
ScaleOptions == {"1", "2", "4", "8", "16", "32"}

Waifu2xModels ==
    {"models-cunet", "models-upconv_7_anime_style_art_rgb", "models-upconv_7_photo"}
RealesrganModels ==
    {"realesr-animevideov3", "realesrgan-x4plus", "realesrgan-x4plus-anime"}

\* parseInt(text, 10) of the texts the model uses.
ParseInt(text) ==
    CASE text = "1" -> 1 [] text = "2" -> 2 [] text = "4" -> 4
      [] text = "8" -> 8 [] text = "16" -> 16 [] text = "32" -> 32
      [] OTHER -> NaN

\* parseInt(options.scale, 10) || 2
OutputScale(scale) ==
    IF ParseInt(scale) = NaN \/ ParseInt(scale) = 0 THEN 2 ELSE ParseInt(scale)

\* upscale() with every realesrgan model taken as 4x only.
UpscaleScaleX4(model, scale) ==
    IF model \in Waifu2xModels THEN ParseInt(scale)
    ELSE IF model \in RealesrganModels THEN 4
    ELSE NaN

\* upscale(): the scale the chosen binary is run with and that upscale()
\* resolves with; NaN stands for the `default:` branch, which throws.
UpscaleScale(model, scale) ==
    IF model \in Waifu2xModels THEN ParseInt(scale)
    ELSE IF model \in RealesrganModels
    THEN (IF model = "realesr-animevideov3" /\ scale = "2" THEN 2 ELSE 4)
    ELSE NaN

\* maid.cleanup() awaited to its end: the ids of the tasks it called and how
\* the call ended.
RECURSIVE Drain(_, _)
Drain(ts, i) ==
    IF i > Len(ts) THEN [ran |-> <<>>, st |-> "resolved"]
    ELSE IF Run(ts[i]) = "rejected" THEN [ran |-> <<ts[i].id>>, st |-> "rejected"]
    ELSE LET r == Drain(ts, i + 1)
         IN  [ran |-> <<ts[i].id>> \o r.ran, st |-> r.st]

\* `let rescaleFilter: string | undefined`, line 188
Undefined == [undefined |-> TRUE, width |-> 0, height |-> 0]

\* Before the job has read anything.
NothingRead ==
    /\ input = [container |-> ""]
    /\ modelOpt = ""
    /\ formatOpt = ""
    /\ rescaleFilter = Undefined
    /\ videoOptions = [preferredContainer |-> ""]

ImageContainers == {"png", "jpg", "webp", "bmp"}
Dimensions == {<<3, 2>>, <<640, 480>>}

\* What ffprobe() gives for an image: ImageMeta.
ImageMetas ==
    {[container |-> c, width |-> d[1], height |-> d[2]] :
        c \in ImageContainers, d \in Dimensions}

InputContainers == {"mp4", "matroska,webm", "avi", "gif"}
InputExtensions == {"mkv", "webm", "mp4"}

\* What video() reads of a VideoMeta and of input.path to choose the
\* container (lines 336, 400-409).
VideoMetas ==
    [container : InputContainers, extension : InputExtensions, hasSubtitles : BOOLEAN]

\* The videos, and the values of options.scale with them, that whole jobs
\* are run on; images are run at every scale, and SpecContainer goes through
\* all of VideoMetas.
JobVideos ==
    {[container |-> "mp4", extension |-> "mp4", hasSubtitles |-> FALSE],
     [container |-> "matroska,webm", extension |-> "mkv", hasSubtitles |-> TRUE],
     [container |-> "matroska,webm", extension |-> "webm", hasSubtitles |-> FALSE],
     [container |-> "gif", extension |-> "mp4", hasSubtitles |-> FALSE]}
JobScales == {"2", "4"}

\* ---- default export, lines 29-66

\* checkSaveAsPathOptions() throws a TemplateError, throws something else
\* (the catch swallows it), or returns.
Validations == {"ok", "template", "other"}

Start ==
    /\ pc = "start"
    /\ \E v \in Validations :
         IF v = "template"
         THEN /\ trace' = trace \o <<Ev("throws", "validation", v),
                                      Ev("error", "template", "")>>
              /\ pc' = "done"
              /\ UNCHANGED running
         ELSE /\ trace' = (IF v = "other" THEN Append(trace, Ev("throws", "validation", v))
                           ELSE trace) \o <<Ev("spawn", "ffprobe", "")>>
              /\ running' = running \cup {"ffprobe"}
              /\ pc' = "probing"
    /\ UNCHANGED <<next, fs, workingPath, result, poller, scaleOpt,
                   upScale, currentScale, twoPass, outputContainer, maidVars, offJob, readVars>>

\* What ffprobe() gives: meta.type, or it throws.
ProbeResults == {"image", "video", "audio", "throw"}

\* What ffprobe() gives for a file that is neither an image nor a video.
AudioMetas == {[type |-> "audio", container |-> "mp3"]}

DispatchAnyToVideo(type) ==
    CASE type = "image" -> "image" [] type = "throw" -> "threw" [] OTHER -> "video"

\* `switch (meta?.type)`, lines 46-59
Dispatch(type) ==
    CASE type = "image" -> "image" [] type = "video" -> "video" [] OTHER -> "threw"

ProbeDone ==
    /\ pc = "probing"
    /\ "ffprobe" \in running
    /\ \E m \in ProbeResults :
         /\ trace' = Append(trace, Ev("exit", "ffprobe", IF m = "throw" THEN "error" ELSE "ok"))
         /\ pc' = Dispatch(m)
         /\ input' \in CASE m = "image" -> ImageMetas
                         [] m = "video" -> JobVideos
                         [] m = "audio" -> AudioMetas
                         [] OTHER -> {input}
    /\ running' = running \ {"ffprobe"}
    /\ UNCHANGED <<next, fs, workingPath, result, poller, scaleOpt,
                   upScale, currentScale, twoPass, outputContainer, maidVars, offJob,
                   modelOpt, formatOpt, rescaleFilter, videoOptions>>

\* `if (result) {...}`, lines 61-65, entered when image() or video() returns.
Return ==
    /\ pc \in {"img_return", "vid_return"}
    /\ trace' = Append(trace, Ev("return", IF pc = "img_return" THEN "image" ELSE "video", ""))
    /\ pc' = IF result # Void THEN "saving" ELSE "done"
    /\ UNCHANGED <<next, running, fs, workingPath, result, poller, scaleOpt,
                   upScale, currentScale, twoPass, outputContainer, maidVars, offJob, readVars>>

\* saveAsPath() moves the result in place (or throws, as it does when there
\* is no file at tmpPath), then output.file().
Save ==
    /\ pc = "saving"
    /\ \E ok \in BOOLEAN :
         IF ok /\ result.tmpPath \in fs
               THEN /\ trace' = Append(trace, Ev("file", result.tmpPath, result.container))
                    /\ pc' = "done"
               ELSE /\ pc' = "threw"
                    /\ UNCHANGED trace
    /\ UNCHANGED <<next, running, fs, workingPath, result, poller, scaleOpt,
                   upScale, currentScale, twoPass, outputContainer, maidVars, offJob, readVars>>

\* ---- maid.cleanup() of the job's ledger, awaited (utils.ts 127-130)

Cleanup ==
    /\ pc = "cleanup"
    /\ LET d == Drain(tasks, 1)
           \* the tasks called are the first Len(d.ran); one that does not fail
           \* deletes its path
           gone == {tasks[i].id : i \in {j \in 1..Len(d.ran) : tasks[j].fail = "no"}}
       IN  /\ ran' = ran \o [i \in 1..Len(d.ran) |-> [call |-> 1, id |-> d.ran[i]]]
           /\ fs' = fs \ gone
           /\ IF d.st = "resolved"
                THEN /\ tasks' = <<>>
                     /\ trace' = trace \o [i \in 1..Len(d.ran) |-> Ev("ran", d.ran[i], "")]
                                       \o <<Ev("drained", "", "")>>
                     /\ pc' = next
                ELSE /\ trace' = trace \o [i \in 1..Len(d.ran) |-> Ev("ran", d.ran[i], "")]
                     /\ pc' = "threw"
                     /\ UNCHANGED tasks
    /\ UNCHANGED <<next, running, workingPath, result, poller, scaleOpt,
                   upScale, currentScale, twoPass, outputContainer, calls, nextTask, offJob, readVars>>

\* ---- upscale(), lines 72-147

Models == Waifu2xModels \cup RealesrganModels \cup {"unknown"}

\* `await execute(...)` of the upscaler has been reached: where the caller waits.
UpscaleWait(p) == IF p = "img_upscale" THEN "img_upscaling" ELSE "vid_upscaling"

\* `if (dirMode) await prepareEmptyDir(outPath)`, line 89: in directory mode
\* outPath is the directory of the upscaled frames.
PreparedEmpty(dirMode) == IF dirMode THEN <<Ev("wipe", "framesOut", "")>> ELSE <<>>

\* upscale() up to `await execute(binPath, ...)`; inPath is a directory
\* exactly when video() calls it.  An unknown model throws before anything
\* is spawned, into the caller's catch.
UpscaleBegin ==
    /\ pc \in {"img_upscale", "vid_upscale"}
    /\ \E m \in Models :
         LET dirMode == pc = "vid_upscale"
             scale == UpscaleScale(m, scaleOpt)
         IN  /\ modelOpt' = m
             /\ IF scale = NaN
                  THEN /\ trace' = trace \o <<Ev("stage", "upscaling", "")>>
                                       \o PreparedEmpty(dirMode)
                                       \o <<Ev("error", "upscale", "")>>
                       /\ pc' = "cleanup"
                       /\ next' = IF dirMode THEN "vid_return" ELSE "img_return"
                       /\ UNCHANGED <<running, poller, upScale>>
                  ELSE /\ trace' = trace \o <<Ev("stage", "upscaling", "")>>
                                       \o PreparedEmpty(dirMode)
                                       \o <<Ev("spawn", "upscaler", "")>>
                       /\ running' = running \cup {"upscaler"}
                       /\ poller' = IF dirMode THEN "active" ELSE "none"
                       /\ upScale' = scale
                       /\ pc' = UpscaleWait(pc)
                       /\ UNCHANGED next
    /\ UNCHANGED <<fs, workingPath, result, scaleOpt, currentScale, twoPass,
                   outputContainer, maidVars, offJob, input, formatOpt, rescaleFilter,
                   videoOptions>>

\* upscale() without the finally of lines 144-146.
NotDisposed(pl) == pl

\* `finally { dirProgressDisposer?.() }`, lines 144-146
Disposed(pl) == IF pl = "active" THEN "disposed" ELSE pl

\* ---- image(), lines 152-320

ImageFormats == {"jpg", "png", "webp"}

\* image() up to its first await: the conversion of an unsupported input
\* (lines 164-177) or the call of upscale().
ImageBegin ==
    /\ pc = "image"
    /\ \E scale \in ScaleOptions :
         /\ scaleOpt' = scale
         /\ IF input.container \notin {"png", "jpg", "webp"}
              THEN /\ tasks' = Append(tasks, DeleteTask("converted"))
                   /\ trace' = trace \o <<Ev("task", "converted", ""),
                                          Ev("spawn", "convert", "")>>
                   /\ running' = running \cup {"convert"}
                   /\ pc' = "converting"
              ELSE /\ pc' = "img_upscale"
                   /\ UNCHANGED <<tasks, trace, running>>
    /\ workingPath' = "input"
    /\ UNCHANGED <<next, fs, result, poller, upScale, currentScale, twoPass,
                   outputContainer, calls, ran, nextTask, offJob, readVars>>

\* The catch of the conversion without its `await maid.cleanup()`.
ConvertCatchNoCleanup == [pc |-> "img_return", next |-> "img_return"]

\* The catch of the conversion, lines 179-183: report, clean up, return.
ConvertCatch == [pc |-> "cleanup", next |-> "img_return"]

\* `await execute(ffmpeg, [... tmpPath])` of the conversion ends, lines 172-183.
\* A failed ffmpeg may or may not have left the file it was writing.
ConvertDone ==
    /\ pc = "converting"
    /\ "convert" \in running
    /\ running' = running \ {"convert"}
    /\ \E o \in Outcomes, left \in BOOLEAN :
         IF Resolves(o)
         THEN /\ o = "ok" => left
              /\ fs' = IF left THEN fs \cup {"converted"} ELSE fs
              /\ workingPath' = "converted"
              /\ trace' = Append(trace, Ev("exit", "convert", o))
              /\ pc' = "img_upscale"
              /\ UNCHANGED next
         ELSE /\ fs' = IF left THEN fs \cup {"converted"} ELSE fs
              /\ trace' = trace \o <<Ev("exit", "convert", o), Ev("error", "convert", "")>>
              /\ pc' = ConvertCatch.pc
              /\ next' = ConvertCatch.next
              /\ UNCHANGED workingPath
    /\ UNCHANGED <<result, poller, scaleOpt, upScale, currentScale, twoPass,
                   outputContainer, maidVars, offJob, readVars>>

\* The catch of lines 196-199 without its `return`.
ImageUpscaledNoReturn(o) == "img_encode"

\* Where image() goes after the try/catch/finally around upscale(), lines
\* 190-201: the finally cleans up, then the catch's `return` or line 203.
ImageUpscaled(o) == IF Resolves(o) THEN "img_encode" ELSE "img_return"

\* `await execute(...)` in upscale() ends while image() awaits upscale().
ImageUpscaleDone ==
    /\ pc = "img_upscaling"
    /\ "upscaler" \in running
    /\ running' = running \ {"upscaler"}
    /\ poller' = Disposed(poller)
    /\ \E o \in Outcomes, left \in BOOLEAN :
         /\ IF Resolves(o)
              THEN /\ o = "ok" => left
                   /\ fs' = IF left THEN fs \cup {"upscaled"} ELSE fs
                   /\ workingPath' = "upscaled"
                   /\ currentScale' = upScale
                   /\ trace' = Append(trace, Ev("exit", "upscaler", o))
              ELSE /\ fs' = IF left THEN fs \cup {"upscaled"} ELSE fs
                   /\ trace' = trace \o <<Ev("exit", "upscaler", o), Ev("error", "upscale", "")>>
                   /\ UNCHANGED <<workingPath, currentScale>>
         /\ pc' = "cleanup"
         /\ next' = ImageUpscaled(o)
    /\ UNCHANGED <<result, scaleOpt, upScale, twoPass, outputContainer, maidVars, offJob, readVars>>

\* Math.round(num / den): the nearest integer, a half going up.
Round(num, den) == (2 * num + den) \div (2 * den)

\* A filter built only to scale up.
RescalesUp(current, outputScale) == current < outputScale

\* `if (currentScale !== outputScale)`, line 204
Rescales(current, outputScale) == current # outputScale

\* rescaleFilter after lines 204-208
RescaleFilter(meta, current, outputScale) ==
    IF Rescales(current, outputScale)
    THEN [undefined |-> FALSE,
          width |-> Round(meta.width * outputScale, 1),
          height |-> Round(meta.height * outputScale, 1)]
    ELSE Undefined

\* Lines 213-301: is there an ffmpegJob for this format?  The jpg and webp
\* cases always make one, the default (png) case only `if (rescaleFilter)`.
\* An ffmpeg job made for every format.
HasFfmpegJobAlways(fmt, rescale) == TRUE

HasFfmpegJob(fmt, rescale) == fmt \in {"jpg", "webp"} \/ rescale

\* Lines 203-315 up to `await execute(ffmpeg, ...)`, or to the last
\* maid.cleanup() when there is nothing to transcode.
ImageEncodeBegin ==
    /\ pc = "img_encode"
    /\ \E fmt \in ImageFormats :
         LET filter == RescaleFilter(input, currentScale, OutputScale(scaleOpt))
         IN  /\ formatOpt' = fmt
             /\ rescaleFilter' = filter
             /\ IF HasFfmpegJob(fmt, ~filter.undefined)
                  THEN /\ trace' = Append(trace, Ev("spawn", "transcode", fmt))
                       /\ running' = running \cup {"transcode"}
                       /\ outputContainer' = fmt
                       /\ pc' = "img_transcoding"
                       /\ UNCHANGED <<result, next>>
                  ELSE /\ result' = [tmpPath |-> workingPath, container |-> "png"]
                       /\ pc' = "cleanup"
                       /\ next' = "img_return"
                       /\ UNCHANGED <<trace, running, outputContainer>>
    /\ UNCHANGED <<fs, workingPath, poller, scaleOpt, upScale, currentScale, twoPass,
                   maidVars, offJob, input, modelOpt, videoOptions>>

\* The result of the try around the transcode, lines 305-312.
TranscodeResult(o, container) ==
    IF Resolves(o) THEN [tmpPath |-> "imgOut", container |-> container] ELSE Void

\* `await execute(ffmpeg, ['-y', ...ffmpegJob.args])` ends, lines 305-317.
ImageTranscodeDone ==
    /\ pc = "img_transcoding"
    /\ "transcode" \in running
    /\ running' = running \ {"transcode"}
    /\ \E o \in Outcomes, left \in BOOLEAN :
         /\ IF Resolves(o)
              THEN /\ o = "ok" => left
                   /\ fs' = (IF left THEN fs \cup {"imgOut"} ELSE fs) \ {workingPath}
                   /\ trace' = trace \o <<Ev("exit", "transcode", o),
                                          Ev("delete", workingPath, "")>>
                   /\ UNCHANGED <<tasks>>
              ELSE /\ fs' = IF left THEN fs \cup {"imgOut"} ELSE fs
                   /\ tasks' = Append(tasks, DeleteTask("imgOut"))
                   /\ trace' = trace \o <<Ev("exit", "transcode", o),
                                          Ev("error", "transcode", ""),
                                          Ev("task", "imgOut", "")>>
         /\ result' = TranscodeResult(o, outputContainer)
    /\ pc' = "cleanup"
    /\ next' = "img_return"
    /\ UNCHANGED <<workingPath, poller, scaleOpt, upScale, currentScale, twoPass,
                   outputContainer, calls, ran, nextTask, offJob, readVars>>

\* ---- video(), lines 326-608

\* What video() reads of the input and of options.video to choose the
\* container (lines 401-415).
PreferredContainers == {"mp4", "webm", "mkv"}
ContainerOptions ==
    [ensureSubtitles : BOOLEAN, inheritContainer : BOOLEAN,
     preferredContainer : PreferredContainers]

\* The options a job is run with: every container is still an output (mkv
\* through subtitles, mp4, mkv, webm and gif through inheritance); all of
\* ContainerOptions is gone through in SpecContainer.
JobOptions == {o \in ContainerOptions : o.preferredContainer = "webm"}

\* inputContainer with the shared id taken as it is.
InputContainerRaw(meta) == meta.container

\* inputContainer, lines 402-409
InputContainer(meta) ==
    IF meta.container = "matroska,webm"
    THEN (IF meta.extension = "mkv" \/ meta.hasSubtitles THEN "mkv" ELSE "webm")
    ELSE meta.container

\* outputContainer without its first branch.
OutputContainerNoSubtitles(meta, o) ==
    IF o.inheritContainer /\ InputContainer(meta) \in {"mp4", "webm", "mkv", "gif"}
    THEN InputContainer(meta)
    ELSE o.preferredContainer

\* outputContainer, lines 410-415
OutputContainer(meta, o) ==
    IF meta.hasSubtitles /\ o.ensureSubtitles THEN "mkv"
    ELSE IF o.inheritContainer /\ InputContainer(meta) \in {"mp4", "webm", "mkv", "gif"}
    THEN InputContainer(meta)
    ELSE o.preferredContainer

\* Lines 401-415 by themselves.
ContainerChosen ==
    /\ pc = "container"
    /\ outputContainer' = OutputContainer(input, videoOptions)
    /\ pc' = "off"
    /\ UNCHANGED <<next, running, trace, fs, workingPath, result, poller, scaleOpt,
                   upScale, currentScale, twoPass, maidVars, offJob, readVars>>

\* audioArgs, lines 540-552: nothing without audio or for a gif, `-c:a copy`
\* when input.container is the output container, else the audio codec with
\* a bitrate for each stream.
NoAudioArgs == [codec |-> "", bitrates |-> <<>>]

AudioArgs(meta, streams, out, bitrate) ==
    IF streams # <<>> /\ out # "gif"
    THEN (IF meta.container = out
          THEN [codec |-> "copy", bitrates |-> <<>>]
          ELSE [codec |-> "audioCodec",
                bitrates |-> [i \in 1..Len(streams) |-> bitrate * streams[i]]])
    ELSE NoAudioArgs

\* input.audioStreams by the channels of each stream, and the values of
\* videoOptions.audioChannelBitrate gone through.
AudioStreams == {<<>>, <<2>>, <<2, 6>>}
ChannelBitrates == {64, 96}

\* No video read.
AudioIdle == audioStreams = <<>> /\ audioChannelBitrate = 0 /\ audioArgs = NoAudioArgs

\* Lines 401-415 and 540-552 by themselves.
AudioChosen ==
    /\ pc = "audio"
    /\ outputContainer' = OutputContainer(input, videoOptions)
    /\ audioArgs' = AudioArgs(input, audioStreams, outputContainer', audioChannelBitrate)
    /\ pc' = "off"
    /\ UNCHANGED <<next, running, trace, fs, workingPath, result, poller, scaleOpt,
                   upScale, currentScale, twoPass, maidVars, readVars,
                   splitVars, cleanVars, execVars, isoVars, pathVars,
                   audioStreams, audioChannelBitrate>>

\* The values options.video.<container>Codec can have (index.ts), and 'gif'.
CodecsOf(container) ==
    CASE container = "mp4" -> {"h264", "h265", "vp8", "vp9", "av1"}
      [] container = "webm" -> {"vp8", "vp9", "av1"}
      [] container = "mkv" -> {"h264", "h265", "vp8", "vp9", "av1"}
      [] container = "gif" -> {"gif"}

\* twoPass after the codec switch, lines 423-493: only the vp8 and vp9
\* cases call makeTwoPass(), each when its own twoPass option is on.
TwoPassAnyCodec(codec, twoPassOption) == twoPassOption

TwoPass(codec, twoPassOption) == codec \in {"vp8", "vp9"} /\ twoPassOption

\* execute() of the frame extraction called without `await`.
ExtractNotAwaited == "vid_upscale"

\* `await execute(...)` of the frame extraction: where video() waits.
ExtractWait == "vid_extracting"

\* video() up to `await execute(ffmpeg, ['-y', '-i', input.path, ...])`,
\* lines 330-362.
VideoBegin ==
    /\ pc = "video"
    /\ \E scale \in JobScales : scaleOpt' = scale
    /\ fs' = fs \cup {"framesDir"}
    /\ tasks' = Append(tasks, DeleteTask("framesDir"))
    /\ trace' = trace \o <<Ev("wipe", "framesIn", ""),
                           Ev("wipe", "framesOut", ""),
                           Ev("task", "framesDir", ""),
                           Ev("stage", "extracting frames", ""),
                           Ev("spawn", "extract", "")>>
    /\ running' = running \cup {"extract"}
    /\ pc' = ExtractWait
    /\ UNCHANGED <<next, workingPath, result, poller, upScale, currentScale, twoPass,
                   outputContainer, calls, ran, nextTask, offJob, readVars>>

\* Where video() goes when the extraction ends: line 369, or the catch of
\* lines 363-367 (report, clean up, return).
ExtractedNoReturn(o) == [pc |-> IF Resolves(o) THEN "vid_upscale" ELSE "cleanup", next |-> "vid_upscale"]

Extracted(o) ==
    IF Resolves(o) THEN [pc |-> "vid_upscale", next |-> next]
    ELSE [pc |-> "cleanup", next |-> "vid_return"]

ExtractDone ==
    /\ pc = "vid_extracting"
    /\ "extract" \in running
    /\ running' = running \ {"extract"}
    /\ \E o \in Outcomes :
         /\ trace' = IF Resolves(o) THEN Append(trace, Ev("exit", "extract", o))
                     ELSE trace \o <<Ev("exit", "extract", o), Ev("error", "extract", "")>>
         /\ pc' = Extracted(o).pc
         /\ next' = Extracted(o).next
    /\ UNCHANGED <<fs, workingPath, result, poller, scaleOpt, upScale, currentScale, twoPass,
                   outputContainer, maidVars, offJob, readVars>>

\* `await execute(...)` in upscale() ends while video() awaits upscale(),
\* lines 375-384.
VideoUpscaleDone ==
    /\ pc = "vid_upscaling"
    /\ "upscaler" \in running
    /\ running' = running \ {"upscaler"}
    /\ poller' = Disposed(poller)
    /\ \E o \in Outcomes :
         IF Resolves(o)
         THEN /\ trace' = Append(trace, Ev("exit", "upscaler", o))
              /\ currentScale' = upScale
              /\ pc' = "vid_encode"
              /\ UNCHANGED next
         ELSE /\ trace' = trace \o <<Ev("exit", "upscaler", o), Ev("error", "upscale", "")>>
              /\ pc' = "cleanup"
              /\ next' = "vid_return"
              /\ UNCHANGED currentScale
    /\ UNCHANGED <<fs, workingPath, result, scaleOpt, upScale, twoPass, outputContainer, maidVars, offJob, readVars>>

\* `finally { stage('cleaning up'); await maid.cleanup(); }`, lines 604-607,
\* which every exit of the try of lines 394-603 goes through.
NoFinally(tr) == [pc |-> "vid_return", next |-> "vid_return", trace |-> tr]

\* The finally without its `stage('cleaning up')`.
FinallyNoStage(tr) == [pc |-> "cleanup", next |-> "vid_return", trace |-> tr]

Finally(tr) ==
    [pc |-> "cleanup", next |-> "vid_return",
     trace |-> Append(tr, Ev("stage", "cleaning up", ""))]

\* `await execute(...)` of the final encode has been reached, lines 585-598.
EncodeSpawned(tr) == Append(tr, Ev("spawn", "encode", ""))

\* What pass 1 is run with after twoPass.args[0], line 572: no audio, and
\* the null muxer writing to the null device.
Pass1Sink == "-an -f null /dev/null"

\* Lines 386-574: the container, the codec and two-pass are chosen, then
\* video() runs up to `await execute(...)` of pass 1 or of the final encode.
VideoEncodeBegin ==
    /\ pc = "vid_encode"
    /\ \E o \in JobOptions :
         \E codec \in CodecsOf(OutputContainer(input, o)), twoPassOption \in BOOLEAN :
            /\ videoOptions' = [ensureSubtitles |-> o.ensureSubtitles,
                                inheritContainer |-> o.inheritContainer,
                                preferredContainer |-> o.preferredContainer,
                                codec |-> codec, twoPass |-> twoPassOption]
            /\ outputContainer' = OutputContainer(input, o)
            /\ twoPass' = TwoPass(codec, twoPassOption)
            /\ IF twoPass'
                 THEN /\ tasks' = Append(tasks, DeleteTask("passLog"))
                      /\ trace' = trace \o <<Ev("stage", "encoding video", ""),
                                             Ev("task", "passLog", ""),
                                             Ev("stage", "pass 1", ""),
                                             Ev("spawn", "pass1", Pass1Sink)>>
                      /\ running' = running \cup {"pass1"}
                      /\ pc' = "vid_pass1"
                 ELSE /\ trace' = EncodeSpawned(Append(trace, Ev("stage", "encoding video", "")))
                      /\ running' = running \cup {"encode"}
                      /\ pc' = "vid_encoding"
                      /\ UNCHANGED tasks
    /\ UNCHANGED <<next, fs, workingPath, result, poller, scaleOpt, upScale, currentScale,
                   calls, ran, nextTask, offJob, input, modelOpt, formatOpt, rescaleFilter>>

\* `await execute(...)` of pass 1 ends, lines 569-583: on failure report and
\* return (through the finally), else go on to the final encode.
Pass1Done ==
    /\ pc = "vid_pass1"
    /\ "pass1" \in running
    /\ \E o \in Outcomes, left \in BOOLEAN :
         IF Resolves(o)
         THEN /\ o = "ok" => left
              /\ fs' = IF left THEN fs \cup {"passLog"} ELSE fs
              /\ trace' = EncodeSpawned(trace \o <<Ev("exit", "pass1", o), Ev("stage", "pass 2", "")>>)
              /\ running' = (running \ {"pass1"}) \cup {"encode"}
              /\ pc' = "vid_encoding"
              /\ UNCHANGED next
         ELSE LET f == Finally(trace \o <<Ev("exit", "pass1", o), Ev("error", "pass1", "")>>)
              IN  /\ fs' = IF left THEN fs \cup {"passLog"} ELSE fs
                  /\ trace' = f.trace
                  /\ running' = running \ {"pass1"}
                  /\ pc' = f.pc
                  /\ next' = f.next
    /\ UNCHANGED <<workingPath, result, poller, scaleOpt, upScale, currentScale, twoPass,
                   outputContainer, maidVars, offJob, readVars>>

\* What the try around the final encode returns, lines 590-603.
EncodeResultAlways(o, container) == [tmpPath |-> "vidOut", container |-> container]

EncodeResult(o, container) ==
    IF Resolves(o) THEN [tmpPath |-> "vidOut", container |-> container] ELSE Void

\* `await execute(...)` of the final encode ends, lines 590-607.
EncodeDone ==
    /\ pc = "vid_encoding"
    /\ "encode" \in running
    /\ running' = running \ {"encode"}
    /\ \E o \in Outcomes, left \in BOOLEAN :
         /\ IF Resolves(o)
              THEN /\ o = "ok" => left
                   /\ fs' = IF left THEN fs \cup {"vidOut"} ELSE fs
                   /\ UNCHANGED tasks
                   /\ LET f == Finally(Append(trace, Ev("exit", "encode", o)))
                      IN  trace' = f.trace /\ pc' = f.pc /\ next' = f.next
              ELSE /\ fs' = IF left THEN fs \cup {"vidOut"} ELSE fs
                   /\ tasks' = Append(tasks, DeleteTask("vidOut"))
                   /\ LET f == Finally(trace \o <<Ev("exit", "encode", o),
                                                  Ev("task", "vidOut", ""),
                                                  Ev("error", "encode", "")>>)
                      IN  trace' = f.trace /\ pc' = f.pc /\ next' = f.next
         /\ result' = EncodeResult(o, outputContainer)
    /\ UNCHANGED <<workingPath, poller, scaleOpt, upScale, currentScale, twoPass,
                   outputContainer, calls, ran, nextTask, offJob, readVars>>

----------------------------------------------------------------------------
(* isoTimeToMS and makeFfmpegProgressOrLogSplitter: src/src/utils.ts 35-48 *)
(* and 191-226.  Text is a sequence of one-character strings.              *)

Digits == {"0", "1", "2", "3", "4", "5", "6", "7", "8", "9"}
\* The class [\d\:\.] of both regular expressions.
TimeChars == Digits \cup {":", "."}
\* What String.prototype.trim() removes, among the characters used here.
WhiteSpace == {" ", "\n", "\r", "\t"}
\* After these the m flag lets ^ match.
LineTerminators == {"\n", "\r"}

DigitVal(c) ==
    CASE c = "0" -> 0 [] c = "1" -> 1 [] c = "2" -> 2 [] c = "3" -> 3
      [] c = "4" -> 4 [] c = "5" -> 5 [] c = "6" -> 6 [] c = "7" -> 7
      [] c = "8" -> 8 [] c = "9" -> 9

\* parseInt(text, 10) of a text of digits.
RECURSIVE ParseDigits(_)
ParseDigits(text) ==
    IF text = <<>> THEN 0
    ELSE ParseDigits(SubSeq(text, 1, Len(text) - 1)) * 10 + DigitVal(text[Len(text)])

\* The end of the longest run of characters of class that starts at p
\* (p - 1 when text[p] is not of the class).
RunEnd(text, p, class) ==
    CHOOSE e \in (p - 1)..Len(text) :
        /\ \A i \in p..e : text[i] \in class
        /\ e = Len(text) \/ text[e + 1] \notin class

\* text.split(sep), for a one-character separator.
RECURSIVE Split(_, _)
Split(text, sep) ==
    IF \A i \in 1..Len(text) : text[i] # sep THEN <<text>>
    ELSE LET p == CHOOSE i \in 1..Len(text) :
                      text[i] = sep /\ \A j \in 1..(i - 1) : text[j] # sep
         IN  <<SubSeq(text, 1, p - 1)>> \o Split(SubSeq(text, p + 1, Len(text)), sep)

\* parseFloat(`.${frac}`) * 1000: the digits frac begins with, as thousandths
\* (digits after the third are below a millisecond and dropped); NaN when
\* frac does not begin with a digit.
FractionMS(frac) ==
    LET e == RunEnd(frac, 1, Digits)
        d(i) == IF i <= e THEN DigitVal(frac[i]) ELSE 0
    IN  IF e = 0 THEN NaN ELSE d(1) * 100 + d(2) * 10 + d(3)

\* isoTimeToMS() without its line for the hours.
IsoTimeToMSNoHours(text) ==
    LET split == Split(text, ".")
        frac == IF Len(split) >= 2 /\ split[2] # <<>> THEN FractionMS(split[2]) ELSE 0
        parts == SelectSeq(Split(split[1], ":"), LAMBDA x : x # <<>>)
        n == Len(parts)
        part(i) == IF i >= 1 THEN ParseDigits(parts[i]) ELSE 0
    IN  IF frac = NaN THEN NaN
        ELSE frac + part(n) * 1000 + part(n - 1) * 1000 * 60

\* isoTimeToMS(text), lines 35-48
IsoTimeToMS(text) ==
    LET split == Split(text, ".")
        frac == IF Len(split) >= 2 /\ split[2] # <<>> THEN FractionMS(split[2]) ELSE 0
        parts == SelectSeq(Split(split[1], ":"), LAMBDA x : x # <<>>)
        n == Len(parts)
        part(i) == IF i >= 1 THEN ParseDigits(parts[i]) ELSE 0
    IN  IF frac = NaN THEN NaN
        ELSE frac + part(n) * 1000 + part(n - 1) * 1000 * 60
                  + part(n - 2) * 1000 * 60 * 60

\* ---- one call of isoTimeToMS() on a timestamp

\* The timestamps H:MM:SS.fff, MM:SS.fff, SS.fff, SS and the same without
\* the fraction, by their components: each as ffmpeg prints it (<<>> when
\* absent) with what it stands for (hours, minutes, seconds; milliseconds
\* for the fraction).
StampParts ==
    LET Part(tx, val) == [tx |-> tx, val |-> val]
        Hours == {Part(<<>>, 0), Part(<<"0">>, 0), Part(<<"1">>, 1), Part(<<"1", "2">>, 12)}
        Minutes == {Part(<<>>, 0), Part(<<"0", "0">>, 0), Part(<<"3", "0">>, 30),
                    Part(<<"5", "9">>, 59)}
        Seconds == {Part(<<"0", "0">>, 0), Part(<<"4", "0">>, 40), Part(<<"4", "5">>, 45)}
        Fractions == {Part(<<>>, 0), Part(<<"0", "0", "0">>, 0), Part(<<"2", "5", "0">>, 250),
                      Part(<<"5", "0", "0">>, 500), Part(<<"5">>, 500)}
    IN  {c \in [h : Hours, m : Minutes, s : Seconds, f : Fractions] :
            c.h.tx # <<>> => c.m.tx # <<>>}

Stamp(c) ==
    (IF c.h.tx # <<>> THEN c.h.tx \o <<":">> ELSE <<>>)
    \o (IF c.m.tx # <<>> THEN c.m.tx \o <<":">> ELSE <<>>)
    \o c.s.tx
    \o (IF c.f.tx # <<>> THEN <<".">> \o c.f.tx ELSE <<>>)

Timestamps == {Stamp(c) : c \in StampParts}

NotReturned == [returned |-> FALSE, ms |-> 0]

\* No call of isoTimeToMS().
IsoIdle == isoText = <<>> /\ isoTime = NotReturned

\* isoTimeToMS(text) is called on a timestamp.
IsoInit == isoText \in Timestamps /\ isoTime = NotReturned

\* `return time`, line 47
IsoReturn ==
    /\ isoText # <<>>
    /\ ~isoTime.returned
    /\ isoTime' = [returned |-> TRUE, ms |-> IsoTimeToMS(isoText)]
    /\ UNCHANGED isoText

\* text.slice(-1000), line 199
BufferSize == 1000

\* The buffer growing without end.
NoSlice(text) == text

Slice(text) ==
    IF Len(text) > BufferSize
    THEN SubSeq(text, Len(text) - BufferSize + 1, Len(text))
    ELSE text

\* text.trim()
Trim(text) ==
    LET keep == {i \in 1..Len(text) : text[i] \notin WhiteSpace}
    IN  IF keep = {} THEN <<>>
        ELSE SubSeq(text,
                    CHOOSE i \in keep : \A j \in 1..(i - 1) : text[j] \in WhiteSpace,
                    CHOOSE i \in keep : \A j \in (i + 1)..Len(text) : text[j] \in WhiteSpace)

StartsWith(text, prefix) ==
    Len(text) >= Len(prefix) /\ SubSeq(text, 1, Len(prefix)) = prefix

\* Does word stand in text at p?
At(text, p, word) ==
    p + Len(word) - 1 <= Len(text) /\ SubSeq(text, p, p + Len(word) - 1) = word

TxFrame == <<"f", "r", "a", "m", "e", "=">>
TxSize == <<"s", "i", "z", "e", "=">>
TxTime == <<"t", "i", "m", "e", "=">>
TxDuration == <<"D", "u", "r", "a", "t", "i", "o", "n", ":">>

\* /time=([\d\:\.]+)/.exec(message)?.[1], or <<>> for undefined: the
\* leftmost `time=` that a character of the class follows, and the longest
\* run of the class after it.
TimeMatch(message) ==
    LET hits == {p \in 1..Len(message) :
                    /\ At(message, p, TxTime)
                    /\ p + 5 <= Len(message)
                    /\ message[p + 5] \in TimeChars}
    IN  IF hits = {} THEN <<>>
        ELSE LET p == CHOOSE h \in hits : \A g \in hits : h <= g
             IN  SubSeq(message, p + 5, RunEnd(message, p + 5, TimeChars))

\* /^ *Duration: *([\d\:\.]+),/m.exec(recentOutput)?.[1], or <<>>: at the
\* leftmost start of a line, blanks, `Duration:`, blanks, then the longest
\* run of the class, which a comma must follow.
DurationMatch(text) ==
    LET word(p) == RunEnd(text, p, {" "}) + 1
        value(p) == RunEnd(text, word(p) + 9, {" "}) + 1
        last(p) == RunEnd(text, value(p), TimeChars)
        hits == {p \in 1..Len(text) :
                    /\ p = 1 \/ text[p - 1] \in LineTerminators
                    /\ At(text, word(p), TxDuration)
                    /\ last(p) >= value(p)
                    /\ last(p) < Len(text)
                    /\ text[last(p) + 1] = ","}
    IN  IF hits = {} THEN <<>>
        ELSE LET p == CHOOSE h \in hits : \A g \in hits : h <= g
             IN  SubSeq(text, value(p), last(p))

\* `if (milliseconds <= duration)` left out.
EmitsAlways(milliseconds, total) == TRUE

\* `if (milliseconds <= duration)`, line 211; a comparison with NaN is false.
Emits(milliseconds, total) == milliseconds # NaN /\ milliseconds <= total

\* `if (!duration)` alone.
ScansAlways(total, wontHappen) == total = 0

\* `if (!duration && !durationWontHappen)`, line 219
Scans(total, wontHappen) == total = 0 /\ ~wontHappen

\* `isoTimeToMS(durationMatch) || 0`, line 221
OrZero(n) == IF n = NaN THEN 0 ELSE n

\* The callbacks.
Progress(a, b) == [cb |-> "progress", a |-> a, b |-> b]
Log == [cb |-> "log", a |-> 0, b |-> 0]

\* The chunks the model passes in: ffmpeg's preamble and status lines.

\* '  Duration: 00:00:10.00, start: 0\n'
ChDuration ==
    <<" ", " ", "D", "u", "r", "a", "t", "i", "o", "n", ":", " ", "0", "0",
      ":", "0", "0", ":", "1", "0", ".", "0", "0", ",", " ", "s", "t", "a",
      "r", "t", ":", " ", "0", "\n">>

\* '  Duration: 00:0'
ChDurationHead ==
    <<" ", " ", "D", "u", "r", "a", "t", "i", "o", "n", ":", " ", "0", "0",
      ":", "0">>

\* '0:10.00, st\n'
ChDurationTail ==
    <<"0", ":", "1", "0", ".", "0", "0", ",", " ", "s", "t", "\n">>

\* 'Duration: 00:00:03.00,\n'
ChDurationShort ==
    <<"D", "u", "r", "a", "t", "i", "o", "n", ":", " ", "0", "0", ":", "0",
      "0", ":", "0", "3", ".", "0", "0", ",", "\n">>

\* 'frame=  1 time=00:00:05.00 bitrate\r'
ChFrameHalf ==
    <<"f", "r", "a", "m", "e", "=", " ", " ", "1", " ", "t", "i", "m", "e",
      "=", "0", "0", ":", "0", "0", ":", "0", "5", ".", "0", "0", " ", "b",
      "i", "t", "r", "a", "t", "e", "\r">>

\* 'frame=  9 time=00:00:12.00 x\r'
ChFrameOver ==
    <<"f", "r", "a", "m", "e", "=", " ", " ", "9", " ", "t", "i", "m", "e",
      "=", "0", "0", ":", "0", "0", ":", "1", "2", ".", "0", "0", " ", "x",
      "\r">>

\* ' size= 1kB time=00:00:10.00\n'
ChSizeFull ==
    <<" ", "s", "i", "z", "e", "=", " ", "1", "k", "B", " ", "t", "i", "m",
      "e", "=", "0", "0", ":", "0", "0", ":", "1", "0", ".", "0", "0", "\n">>

\* 'frame= 2 time=N/A\r'
ChFrameNA ==
    <<"f", "r", "a", "m", "e", "=", " ", "2", " ", "t", "i", "m", "e", "=",
      "N", "/", "A", "\r">>

\* 'frame= 3 time=.:1\r'
ChFrameBad ==
    <<"f", "r", "a", "m", "e", "=", " ", "3", " ", "t", "i", "m", "e", "=",
      ".", ":", "1", "\r">>

\* 'Stream #0: Video\n'
ChStream ==
    <<"S", "t", "r", "e", "a", "m", " ", "#", "0", ":", " ", "V", "i", "d",
      "e", "o", "\n">>

\* 'Duration: 00:00:1'
ChDurationCut ==
    <<"D", "u", "r", "a", "t", "i", "o", "n", ":", " ", "0", "0", ":", "0",
      "0", ":", "1">>

\* '0.00, x\n'
ChDurationRest == <<"0", ".", "0", "0", ",", " ", "x", "\n">>

\* '0.00, ' then a thousand times 'x' and '\n': the rest of a line that is
\* longer than the buffer.
ChDurationRestLong ==
    <<"0", ".", "0", "0", ",", " ">> \o [i \in 1..BufferSize |-> "x"] \o <<"\n">>

\* 'Duration: 00:00:00.00,\n'
ChDurationZero ==
    <<"D", "u", "r", "a", "t", "i", "o", "n", ":", " ", "0", "0", ":", "0",
      "0", ":", "0", "0", ".", "0", "0", ",", "\n">>

ChunkNames ==
    {"duration", "durationHead", "durationTail", "durationShort", "frameHalf",
     "frameOver", "sizeFull", "frameNA", "frameBad", "stream",
     "durationCut", "durationRest", "durationRestLong", "durationZero"}

ChunkText(name) ==
    CASE name = "duration" -> ChDuration
      [] name = "durationHead" -> ChDurationHead
      [] name = "durationTail" -> ChDurationTail
      [] name = "durationShort" -> ChDurationShort
      [] name = "frameHalf" -> ChFrameHalf
      [] name = "frameOver" -> ChFrameOver
      [] name = "sizeFull" -> ChSizeFull
      [] name = "frameNA" -> ChFrameNA
      [] name = "frameBad" -> ChFrameBad
      [] name = "stream" -> ChStream
      [] name = "durationCut" -> ChDurationCut
      [] name = "durationRest" -> ChDurationRest
      [] name = "durationRestLong" -> ChDurationRestLong
      [] name = "durationZero" -> ChDurationZero

\* The test with 'frame=' alone.
IsStatusLineFrameOnly(message) == StartsWith(Trim(message), TxFrame)

\* `trimmedMessage.startsWith('frame=') || trimmedMessage.startsWith('size=')`
IsStatusLine(message) ==
    StartsWith(Trim(message), TxFrame) \/ StartsWith(Trim(message), TxSize)

\* The closure called with one chunk, lines 196-225.
Feed(name) ==
    LET message == ChunkText(name)
        buffer == Slice(recentOutput \o message)
    IN  /\ Len(fed) < MaxChunks
        /\ fed' = Append(fed, name)
        /\ recentOutput' = buffer
        /\ IF IsStatusLine(message)
             THEN /\ durationWontHappen' = TRUE
                  /\ UNCHANGED duration
                  /\ outs' = Append(outs,
                        IF /\ duration # 0
                           /\ TimeMatch(message) # <<>>
                           /\ Emits(IsoTimeToMS(TimeMatch(message)), duration)
                        THEN <<Progress(IsoTimeToMS(TimeMatch(message)), duration)>>
                        ELSE <<>>)
             ELSE /\ duration' =
                        IF Scans(duration, durationWontHappen) /\ DurationMatch(buffer) # <<>>
                        THEN OrZero(IsoTimeToMS(DurationMatch(buffer)))
                        ELSE duration
                  /\ outs' = Append(outs, <<Log>>)
                  /\ UNCHANGED durationWontHappen

SplitInit ==
    /\ recentOutput = <<>>
    /\ duration = 0
    /\ durationWontHappen = FALSE
    /\ fed = <<>>
    /\ outs = <<>>

----------------------------------------------------------------------------
(* logOrProgress, the onStderr handler of upscale(): src/src/processor.ts  *)
(* 129-139.                                                                *)

\* message.match(/\s?(?<percent>\d+(\.\d+)?)%\s?/)?.groups.percent, or <<>>:
\* the leftmost digit from which digits, then maybe a point and digits,
\* lead to a `%`.
PercentMatch(message) ==
    LET int(d) == RunEnd(message, d, Digits)
        frac(d) == RunEnd(message, int(d) + 2, Digits)
        last(d) ==
            IF int(d) < Len(message) /\ message[int(d) + 1] = "%" THEN int(d)
            ELSE IF /\ int(d) < Len(message) /\ message[int(d) + 1] = "."
                    /\ frac(d) >= int(d) + 2
                    /\ frac(d) < Len(message) /\ message[frac(d) + 1] = "%"
                 THEN frac(d)
                 ELSE 0
        hits == {d \in 1..Len(message) : message[d] \in Digits /\ last(d) # 0}
    IN  IF hits = {} THEN <<>>
        ELSE LET d == CHOOSE h \in hits : \A g \in hits : h <= g
             IN  SubSeq(message, d, last(d))

\* parseInt(text, 10) || 0 of a text that begins with a digit: parseInt
\* reads the leading digits.
PercentOf(text) == ParseDigits(SubSeq(text, 1, RunEnd(text, 1, Digits)))

\* The percentage reported whether or not a cleaner reports the progress.
ReportsPercentAlways(disposer) == TRUE

\* `if (!dirProgressDisposer)`, line 134: null when not in directory mode.
ReportsPercent(disposer) == disposer = "none"

\* utils.log(message)
LogOf(message) == [cb |-> "log", message |-> message]

\* What the upscalers write on stderr, among them: '12.50%\n', ' 5% ',
\* '0.50%\n', '[0 GPU] tile 2\n', '50 %\n', 'tile 1 25.00% x\n'.
StderrNames == {"half", "whole", "zero", "gpu", "apart", "mixed"}

StderrText(name) ==
    CASE name = "half" -> <<"1", "2", ".", "5", "0", "%", "\n">>
      [] name = "whole" -> <<" ", "5", "%", " ">>
      [] name = "zero" -> <<"0", ".", "5", "0", "%", "\n">>
      [] name = "gpu" -> <<"[", "0", " ", "G", "P", "U", "]", " ", "t", "i", "l", "e", " ", "2", "\n">>
      [] name = "apart" -> <<"5", "0", " ", "%", "\n">>
      [] name = "mixed" -> <<"t", "i", "l", "e", " ", "1", " ", "2", "5", ".", "0", "0", "%", " ", "x", "\n">>

\* logOrProgress(data), lines 130-139; poller stands for dirProgressDisposer.
LogOrProgress(name) ==
    LET message == StderrText(name)
        percentMatch == PercentMatch(message)
    IN  /\ Len(fed) < MaxChunks
        /\ fed' = Append(fed, name)
        /\ outs' = Append(outs,
              IF percentMatch # <<>>
              THEN (IF ReportsPercent(poller)
                    THEN <<Progress(PercentOf(percentMatch), 100)>>
                    ELSE <<>>)
              ELSE <<LogOf(message)>>)
        /\ UNCHANGED <<recentOutput, duration, durationWontHappen>>

----------------------------------------------------------------------------
(* The temporary paths of a job: src/src/processor.ts 168, 191, 210,       *)
(* 337-339, 589 and 619-625.  A path is a text; the input file is          *)
(* <dirname>/v.<ext> for both jobs, so dirname and filename are the same.  *)

Dirname == <<"d", "/">>
Filename == <<"v">>

\* The pass log with the name ffmpeg gives it by default.
PassLogFileDefault(id) == <<"T", "/", "f", "f", "m", "p", "e", "g", "2", "p", "a", "s", "s", "-", "0", ".", "l", "o", "g">>

\* makeTwoPass(id).logFiles[0], lines 619-625, in OS.tmpdir()
PassLogFile(id) == <<"T", "/", "d", "r", "o", "v", "p", "-", "u", "p", "s", "c", "a", "l", "e", "-", "p", "a", "s", "s", "l", "o", "g", "f", "i", "l", "e", "-">> \o id \o <<"-", "0", ".", "l", "o", "g">>

\* [frames-<id>], line 337
FramesDirectory(id) == Dirname \o <<"[", "f", "r", "a", "m", "e", "s", "-">> \o id \o <<"]">>

\* The path of each kind a job with this id works on.
PathOf(kind, id) ==
    CASE kind = "converted" -> Dirname \o Filename \o <<"-", "t", "m", "p", "-", "c", "o", "n", "v", "e", "r", "t", "e", "d", "-">> \o id \o <<".", "p", "n", "g">>
      [] kind = "upscaled" -> Dirname \o Filename \o <<"-", "t", "m", "p", "-">> \o id \o <<".", "p", "n", "g">>
      [] kind = "imgOut" -> Dirname \o Filename \o <<".", "t", "m", "p", "-", "o", "u", "t", "-">> \o id
      [] kind = "framesDir" -> FramesDirectory(id)
      [] kind = "framesIn" -> FramesDirectory(id) \o <<"/", "i", "n">>
      [] kind = "framesOut" -> FramesDirectory(id) \o <<"/", "o", "u", "t">>
      [] kind = "frameIn" -> FramesDirectory(id) \o <<"/", "i", "n", "/", "1", ".", "p", "n", "g">>
      [] kind = "frameOut" -> FramesDirectory(id) \o <<"/", "o", "u", "t", "/", "1", ".", "p", "n", "g">>
      [] kind = "passLog" -> PassLogFile(id)
      [] kind = "vidOut" -> Dirname \o Filename \o <<".", "t", "m", "p">> \o id

\* What the subprocesses of a job write, and what a job hands to
\* prepareEmptyDir(), deletePath() or FSP.rm().
Written == {"converted", "upscaled", "imgOut", "frameIn", "frameOut", "passLog", "vidOut"}
Removed == {"converted", "upscaled", "imgOut", "frameIn", "passLog", "vidOut",
            "framesIn", "framesOut", "framesDir"}

\* payload.id: letters and digits.
JobIds == {<<"a">>, <<"1">>, <<"a", "1">>, <<"o", "u", "t">>}
TwoJobs == {1, 2}

\* Is file at path, or below the directory at path?
Under(file, path) == file = path \/ StartsWith(file, path \o <<"/">>)

\* A subprocess of job j writes its file of this kind (ffmpeg runs with -y).
Write(j, kind) ==
    LET path == PathOf(kind, jobIds[j])
    IN  /\ kind \in Written
        /\ Cardinality(disk) < MaxFiles
        /\ disk' = {e \in disk : e.path # path} \cup {[path |-> path, owner |-> j]}
        /\ clobbered' = (clobbered \/ \E e \in disk : e.path = path /\ e.owner # j)
        /\ UNCHANGED jobIds

\* Job j empties or deletes its path of this kind, with all below it.
Remove(j, kind) ==
    LET path == PathOf(kind, jobIds[j])
    IN  /\ kind \in Removed
        /\ disk' = {e \in disk : ~Under(e.path, path)}
        /\ clobbered' = (clobbered \/ \E e \in disk : Under(e.path, path) /\ e.owner # j)
        /\ UNCHANGED jobIds

\* No jobs.
PathsIdle == jobIds = <<>> /\ disk = {} /\ clobbered = FALSE

\* Two jobs with different ids.
PathsInit ==
    /\ jobIds \in {ids \in [TwoJobs -> JobIds] : ids[1] # ids[2]}
    /\ disk = {}
    /\ clobbered = FALSE

----------------------------------------------------------------------------
(* makeDirCloneCleaner: src/src/utils.ts 65-113.  The source directory     *)
(* holds the frames ffmpeg extracted, %08d.<format>; the upscaler writes   *)
(* one file of the same name into the destination for each.  loop() is     *)
(* suspended at each await; the upscaler and the disposer run in between.  *)

Frames == 1..MaxFrames
Formats == {".png", ".jpg"}

File(name, ext) == [name |-> name, ext |-> ext]

\* getFilename(file), line 25: the name without its extension.
GetFilename(file) == file.name

Filenames(dir) == {GetFilename(f) : f \in dir}

\* sourceFiles.get(filename), line 99
MapGet(map, filename) ==
    IF \E f \in map : f.name = filename
    THEN (CHOOSE f \in map : f.name = filename).ext
    ELSE "undefined"

\* The orders in which readdir() can list a set of names.
Orders(names) ==
    {o \in [1..Cardinality(names) -> names] : \A n \in names : \E i \in DOMAIN o : o[i] = n}

\* `if (sourceFiles == null)` taken on every tick.
SnapshotAlways(sf) == TRUE

\* `if (sourceFiles == null)`, line 79
SnapshotNeeded(sf) == sf.isNull

\* The second for-of without `if (isDisposed) break`.
NeverBreaks(disposed) == FALSE

\* `if (isDisposed) break`, line 98
Breaks(disposed) == disposed

\* The disposer without clearTimeout().
NotCleared(id) == id

\* `if (timeoutId) clearTimeout(timeoutId)`, line 111
Cleared(id) == "none"

\* A timer that fires again and again, as one of setInterval() would.
FiredArmed(id) == id

\* The timer of setTimeout(loop, interval), lines 105 and 107, fires once:
\* when loop() runs it is armed no more.
Fired(id) == "none"

\* The setTimeout callback: loop() up to its first await, lines 76-90.
TimerFires ==
    /\ timeoutId = "pending"
    /\ tick = "idle"
    /\ tickNo < MaxTicks
    /\ timeoutId' = Fired(timeoutId)
    /\ IF isDisposed
         THEN UNCHANGED <<sourceFiles, tick, tickNo>>
         ELSE /\ tickNo' = tickNo + 1
              /\ IF SnapshotNeeded(sourceFiles)
                   THEN /\ sourceFiles' = [isNull |-> FALSE, map |-> {}]
                        /\ tick' = "readSource"
                   ELSE /\ tick' = "readDest"
                        /\ UNCHANGED sourceFiles
    /\ UNCHANGED <<sourceDir, destinationDir, cloned, isDisposed, newClonedFilenames,
                   delIdx, reports, detected, deleted, disposeCalls, disposedIn>>

\* `await FSP.readdir(sourceDir)` ends, lines 81-90.  A later entry of the
\* same name replaces the earlier one in the Map; frames have distinct names.
ReadSourceDone ==
    /\ tick = "readSource"
    /\ sourceFiles' = [isNull |-> FALSE, map |-> sourceDir]
    /\ tick' = "readDest"
    /\ UNCHANGED <<sourceDir, destinationDir, cloned, isDisposed, timeoutId,
                   newClonedFilenames, delIdx, tickNo, reports, detected, deleted,
                   disposeCalls, disposedIn>>

\* The second for-of at position i, lines 97-104: wait for the next
\* deletePath(), or leave the loop, report, and arm the next timer.
LoopFrom(i, names, nowCloned) ==
    IF i <= Len(names) /\ ~Breaks(isDisposed)
    THEN /\ tick' = "deleting"
         /\ delIdx' = i
         /\ UNCHANGED <<reports, timeoutId>>
    ELSE /\ tick' = "idle"
         /\ delIdx' = 0
         /\ reports' = Append(reports, <<Cardinality(nowCloned), Cardinality(sourceFiles.map)>>)
         /\ timeoutId' = IF ~isDisposed THEN "pending" ELSE timeoutId

\* `await FSP.readdir(destinationDir)` ends, lines 88-100.
ReadDestDone ==
    /\ tick = "readDest"
    /\ LET new == Filenames(destinationDir) \ cloned
       IN  /\ cloned' = cloned \cup new
           /\ detected' = detected \cup {[name |-> n, tick |-> tickNo] : n \in new}
           /\ \E order \in Orders(new) :
                /\ newClonedFilenames' = order
                /\ LoopFrom(1, order, cloned \cup new)
    /\ UNCHANGED <<sourceDir, destinationDir, sourceFiles, isDisposed, tickNo, deleted,
                   disposeCalls, disposedIn>>

\* `await deletePath(...)` ends, lines 97-104.
DeleteDone ==
    /\ tick = "deleting"
    /\ LET filename == newClonedFilenames[delIdx]
           extension == MapGet(sourceFiles.map, filename)
       IN  /\ sourceDir' = sourceDir \ {File(filename, extension)}
           /\ deleted' = deleted \cup {[name |-> filename, ext |-> extension, tick |-> tickNo]}
    /\ LoopFrom(delIdx + 1, newClonedFilenames, cloned)
    /\ UNCHANGED <<destinationDir, sourceFiles, cloned, isDisposed, newClonedFilenames,
                   tickNo, detected, disposeCalls, disposedIn>>

\* The returned disposer, lines 109-112.
Dispose ==
    /\ disposeCalls < MaxDisposals
    /\ disposeCalls' = disposeCalls + 1
    /\ isDisposed' = TRUE
    /\ timeoutId' = Cleared(timeoutId)
    /\ disposedIn' = IF ~isDisposed /\ tick # "idle" THEN tickNo ELSE disposedIn
    /\ UNCHANGED <<sourceDir, destinationDir, sourceFiles, cloned, tick,
                   newClonedFilenames, delIdx, tickNo, reports, detected, deleted>>

\* The upscaler, running until upscale() calls the disposer, writes the
\* output of one more frame.
UpscalerWrites(n) ==
    /\ ~isDisposed
    /\ n \notin Filenames(destinationDir)
    /\ \E f \in sourceFiles.map \cup sourceDir :
         /\ f.name = n
         /\ destinationDir' = destinationDir \cup {File(n, f.ext)}
    /\ UNCHANGED <<sourceDir, sourceFiles, cloned, isDisposed, timeoutId, tick,
                   newClonedFilenames, delIdx, tickNo, reports, detected, deleted,
                   disposeCalls, disposedIn>>

\* No cleaner: the closure's state as makeDirCloneCleaner() creates it,
\* with empty directories.
CleanIdle ==
    /\ sourceDir = {}
    /\ destinationDir = {}
    /\ sourceFiles = [isNull |-> TRUE, map |-> {}]
    /\ cloned = {}
    /\ isDisposed = FALSE
    /\ timeoutId = "none"
    /\ tick = "idle"
    /\ newClonedFilenames = <<>>
    /\ delIdx = 0
    /\ tickNo = 0
    /\ reports = <<>>
    /\ detected = {}
    /\ deleted = {}
    /\ disposeCalls = 0
    /\ disposedIn = 0

\* makeDirCloneCleaner(in, out) as upscale() calls it: the frames are in
\* the source, the destination was emptied at line 89, the timer is armed.
CleanInit ==
    /\ \E format \in Formats : sourceDir = {File(n, format) : n \in Frames}
    /\ destinationDir = {}
    /\ sourceFiles = [isNull |-> TRUE, map |-> {}]
    /\ cloned = {}
    /\ isDisposed = FALSE
    /\ timeoutId = "pending"
    /\ tick = "idle"
    /\ newClonedFilenames = <<>>
    /\ delIdx = 0
    /\ tickNo = 0
    /\ reports = <<>>
    /\ detected = {}
    /\ deleted = {}
    /\ disposeCalls = 0
    /\ disposedIn = 0

----------------------------------------------------------------------------
(* Specifications *)

JobIdle ==
    /\ pc = "off"
    /\ next = "off"
    /\ running = {}
    /\ trace = <<>>
    /\ fs = {}
    /\ workingPath = "input"
    /\ result = Void
    /\ poller = "none"
    /\ scaleOpt = "2"
    /\ upScale = 1
    /\ currentScale = 1
    /\ twoPass = FALSE
    /\ outputContainer = ""
    /\ NothingRead

\* The ledger by itself, with any interleaving of its callers.
InitMaid == MaidInit /\ JobIdle /\ SplitInit /\ CleanIdle /\ ExecIdle /\ IsoIdle /\ PathsIdle /\ AudioIdle

NextMaid ==
    \/ \E f \in FailKinds : Task([id |-> nextTask + 1, fail |-> f]) /\ UNCHANGED <<jobVars, splitVars, cleanVars, execVars, isoVars, pathVars, audioVars>>
    \/ Forget /\ UNCHANGED <<jobVars, splitVars, cleanVars, execVars, isoVars, pathVars, audioVars>>
    \/ \E c \in Calls : CleanupCall(c) /\ UNCHANGED <<jobVars, splitVars, cleanVars, execVars, isoVars, pathVars, audioVars>>
    \/ \E c \in Calls : CleanupResume(c) /\ UNCHANGED <<jobVars, splitVars, cleanVars, execVars, isoVars, pathVars, audioVars>>

SpecMaid == InitMaid /\ [][NextMaid]_vars

\* One job, from the call of the processor to its end.
Init ==
    /\ MaidInit
    /\ pc = "start"
    /\ next = "start"
    /\ running = {}
    /\ trace = <<>>
    /\ fs = {}
    /\ workingPath = "input"
    /\ result = Void
    /\ poller = "none"
    /\ scaleOpt = "2"
    /\ upScale = 1
    /\ currentScale = 1
    /\ twoPass = FALSE
    /\ outputContainer = ""
    /\ NothingRead
    /\ SplitInit
    /\ CleanIdle
    /\ ExecIdle
    /\ IsoIdle /\ PathsIdle /\ AudioIdle

Next ==
    \/ Start
    \/ ProbeDone
    \/ ImageBegin
    \/ ConvertDone
    \/ UpscaleBegin
    \/ ImageUpscaleDone
    \/ ImageEncodeBegin
    \/ ImageTranscodeDone
    \/ VideoBegin
    \/ ExtractDone
    \/ VideoUpscaleDone
    \/ VideoEncodeBegin
    \/ Pass1Done
    \/ EncodeDone
    \/ Cleanup
    \/ Return
    \/ Save

Spec == Init /\ [][Next]_vars

\* The container video() chooses, for every input and every value of the
\* options it reads for that.
InitContainer ==
    /\ MaidInit
    /\ SplitInit
    /\ CleanIdle
    /\ ExecIdle
    /\ IsoIdle /\ PathsIdle /\ AudioIdle
    /\ pc = "container"
    /\ next = "off"
    /\ running = {}
    /\ trace = <<>>
    /\ fs = {}
    /\ workingPath = "input"
    /\ result = Void
    /\ poller = "none"
    /\ scaleOpt = "2"
    /\ upScale = 1
    /\ currentScale = 1
    /\ twoPass = FALSE
    /\ outputContainer = ""
    /\ input \in VideoMetas
    /\ modelOpt = ""
    /\ formatOpt = ""
    /\ rescaleFilter = Undefined
    /\ videoOptions \in ContainerOptions

NextContainer == ContainerChosen

\* video()'s choice of the audio arguments, for any video and options.
InitAudio ==
    /\ MaidInit /\ SplitInit /\ CleanIdle /\ ExecIdle /\ IsoIdle /\ PathsIdle
    /\ pc = "audio"
    /\ next = "off"
    /\ running = {}
    /\ trace = <<>>
    /\ fs = {}
    /\ workingPath = "input"
    /\ result = Void
    /\ poller = "none"
    /\ scaleOpt = "2"
    /\ upScale = 1
    /\ currentScale = 1
    /\ twoPass = FALSE
    /\ outputContainer = ""
    /\ input \in VideoMetas
    /\ modelOpt = ""
    /\ formatOpt = ""
    /\ rescaleFilter = Undefined
    /\ videoOptions \in ContainerOptions
    /\ audioStreams \in AudioStreams
    /\ audioChannelBitrate \in ChannelBitrates
    /\ audioArgs = NoAudioArgs

NextAudio == AudioChosen

SpecAudio == InitAudio /\ [][NextAudio]_vars

SpecContainer == InitContainer /\ [][NextContainer]_vars

\* One maid with a cleanup() and a further cleanup(), each called at any
\* time, and tasks that do not fail.
MoreCalls == {1, 2}

InitRecall ==
    /\ tasks = <<>>
    /\ calls = [c \in MoreCalls |-> Idle]
    /\ ran = <<>>
    /\ nextTask = 0
    /\ JobIdle /\ SplitInit /\ CleanIdle /\ ExecIdle /\ IsoIdle /\ PathsIdle /\ AudioIdle

NextRecall ==
    \/ Task([id |-> nextTask + 1, fail |-> "no"]) /\ UNCHANGED <<jobVars, splitVars, cleanVars, execVars, isoVars, pathVars, audioVars>>
    \/ Forget /\ UNCHANGED <<jobVars, splitVars, cleanVars, execVars, isoVars, pathVars, audioVars>>
    \/ \E c \in MoreCalls : CleanupCall(c) /\ UNCHANGED <<jobVars, splitVars, cleanVars, execVars, isoVars, pathVars, audioVars>>
    \/ \E c \in MoreCalls : CleanupResume(c) /\ UNCHANGED <<jobVars, splitVars, cleanVars, execVars, isoVars, pathVars, audioVars>>

SpecRecall == InitRecall /\ [][NextRecall]_vars

\* One call of execute() and what its child process does.
InitExecute == MaidInit /\ JobIdle /\ SplitInit /\ CleanIdle /\ ExecInit /\ IsoIdle /\ PathsIdle /\ AudioIdle

NextExecute ==
    \/ StdoutData /\ UNCHANGED <<maidVars, jobVars, splitVars, cleanVars, isoVars, pathVars, audioVars>>
    \/ StderrData /\ UNCHANGED <<maidVars, jobVars, splitVars, cleanVars, isoVars, pathVars, audioVars>>
    \/ OnError /\ UNCHANGED <<maidVars, jobVars, splitVars, cleanVars, isoVars, pathVars, audioVars>>
    \/ \E code \in ExitCodes \cup {Code(-2)} :
          OnClose(code) /\ UNCHANGED <<maidVars, jobVars, splitVars, cleanVars, isoVars, pathVars, audioVars>>

SpecExecute == InitExecute /\ [][NextExecute]_vars

\* One call of isoTimeToMS() on any timestamp.
InitIso == MaidInit /\ JobIdle /\ SplitInit /\ CleanIdle /\ ExecIdle /\ IsoInit /\ PathsIdle /\ AudioIdle

NextIso == IsoReturn /\ UNCHANGED <<maidVars, jobVars, splitVars, cleanVars, execVars, pathVars, audioVars>>

SpecIso == InitIso /\ [][NextIso]_vars

\* Two jobs with different ids writing and removing their temporary paths
\* in any order.
InitPaths == MaidInit /\ JobIdle /\ SplitInit /\ CleanIdle /\ ExecIdle /\ IsoIdle /\ PathsInit /\ AudioIdle

NextPaths ==
    \/ \E j \in TwoJobs, kind \in Written :
          Write(j, kind) /\ UNCHANGED <<maidVars, jobVars, splitVars, cleanVars, execVars, isoVars, audioVars>>
    \/ \E j \in TwoJobs, kind \in Removed :
          Remove(j, kind) /\ UNCHANGED <<maidVars, jobVars, splitVars, cleanVars, execVars, isoVars, audioVars>>

SpecPaths == InitPaths /\ [][NextPaths]_vars

\* One splitter closure, fed any chunks.
InitSplitter == MaidInit /\ JobIdle /\ SplitInit /\ CleanIdle /\ ExecIdle /\ IsoIdle /\ PathsIdle /\ AudioIdle

NextSplitter ==
    \E name \in ChunkNames : Feed(name) /\ UNCHANGED <<maidVars, jobVars, cleanVars, execVars, isoVars, pathVars, audioVars>>

SpecSplitter == InitSplitter /\ [][NextSplitter]_vars

\* The stderr handler of one upscale(), in single-file or directory mode,
\* called with any chunks.
InitStderr ==
    /\ MaidInit /\ SplitInit /\ CleanIdle /\ ExecIdle /\ IsoIdle /\ PathsIdle /\ AudioIdle
    /\ NothingRead
    /\ pc = "off"
    /\ next = "off"
    /\ running = {}
    /\ trace = <<>>
    /\ fs = {}
    /\ workingPath = "input"
    /\ result = Void
    /\ poller \in {"none", "active"}
    /\ scaleOpt = "2"
    /\ upScale = 1
    /\ currentScale = 1
    /\ twoPass = FALSE
    /\ outputContainer = ""

NextStderr ==
    \E name \in StderrNames : LogOrProgress(name) /\ UNCHANGED <<maidVars, jobVars, cleanVars, execVars, isoVars, pathVars, audioVars>>

SpecStderr == InitStderr /\ [][NextStderr]_vars

\* One cleaner, the upscaler that fills the destination, and the disposer.
InitCleaner == MaidInit /\ JobIdle /\ SplitInit /\ CleanInit /\ ExecIdle /\ IsoIdle /\ PathsIdle /\ AudioIdle

NextCleaner ==
    \/ TimerFires /\ UNCHANGED <<maidVars, jobVars, splitVars, execVars, isoVars, pathVars, audioVars>>
    \/ ReadSourceDone /\ UNCHANGED <<maidVars, jobVars, splitVars, execVars, isoVars, pathVars, audioVars>>
    \/ ReadDestDone /\ UNCHANGED <<maidVars, jobVars, splitVars, execVars, isoVars, pathVars, audioVars>>
    \/ DeleteDone /\ UNCHANGED <<maidVars, jobVars, splitVars, execVars, isoVars, pathVars, audioVars>>
    \/ Dispose /\ UNCHANGED <<maidVars, jobVars, splitVars, execVars, isoVars, pathVars, audioVars>>
    \/ \E n \in Frames : UpscalerWrites(n) /\ UNCHANGED <<maidVars, jobVars, splitVars, execVars, isoVars, pathVars, audioVars>>

SpecCleaner == InitCleaner /\ [][NextCleaner]_vars

----------------------------------------------------------------------------
(* Claims on the ledger (SpecMaid) *)

\* The ids of a sequence of tasks.
Ids(ts) == [i \in 1..Len(ts) |-> ts[i].id]

\* The ids of the tasks that cleanup() call c has called, in order.
RanBy(c) == Ids(SelectSeq(ran, LAMBDA r : r.call = c))

NoRepeat(s) == \A i, j \in 1..Len(s) : s[i] = s[j] => i = j

C1_Ran ==
    \A c \in Calls :
        /\ calls[c].st # "rejected"
        /\ calls[c].st = "resolved" =>
              /\ Len(RanBy(c)) >= Len(calls[c].snap)
              /\ SubSeq(RanBy(c), 1, Len(calls[c].snap)) = Ids(calls[c].snap)
              /\ NoRepeat(RanBy(c))

C1_Empties ==
    \A c \in Calls :
        (calls[c].st # "resolved" /\ calls'[c].st = "resolved") => tasks' = <<>>

\* C1: a cleanup() of a ledger holding N tasks, any of which may throw or
\* reject, calls all N exactly once each in registration order, never
\* fails, and leaves the ledger empty when it resolves.
Thm_C1 == []C1_Ran /\ [][C1_Empties]_vars

\* A cleanup() that resolved after a ledger of three tasks whose first threw
\* and whose second rejected.
Wit_C1 ==
    \E c \in Calls :
        /\ calls[c].st = "resolved"
        /\ Len(calls[c].snap) = 3
        /\ calls[c].snap[1].fail = "throw"
        /\ calls[c].snap[2].fail = "reject"
        /\ RanBy(c) = <<1, 2, 3>>

----------------------------------------------------------------------------
(* Claims on one job (Spec) *)

TraceIdx == 1..Len(trace)

Failed(e) == e.ev = "exit" /\ e.how # "ok"
\* A subprocess failed to spawn or exited with a nonzero code.
Threw(e) == e.ev = "exit" /\ e.how \in {"exit", "error"}

\* The names of the subprocesses spawned, in order.
Spawns ==
    LET events == SelectSeq(trace, LAMBDA e : e.ev = "spawn")
    IN  [i \in 1..Len(events) |-> events[i].of]

IsPrefix(s, t) == Len(s) <= Len(t) /\ \A i \in 1..Len(s) : s[i] = t[i]

\* C2: when video() returns after it registered the frames directory,
\* however it ends, every task registered in the ledger has been run (the
\* frames directory and the pass log are gone), the ledger is empty, and
\* the end of the drain is the last thing video() did.
Thm_C2 ==
    /\ \A i \in TraceIdx :
         (/\ trace[i] = Ev("return", "video", "")
          /\ \E j \in 1..i : trace[j] = Ev("task", "framesDir", ""))
         => /\ i > 1
            /\ trace[i - 1].ev = "drained"
            /\ \A j \in 1..i :
                 trace[j].ev = "task" =>
                    \E k \in j..i : trace[k] = Ev("ran", trace[j].of, "")
    /\ pc = "vid_return" => tasks = <<>> /\ fs \cap {"framesDir", "passLog"} = {}

\* video() has returned after a failed pass 1, with both the frames
\* directory and the pass log run from the ledger.
Wit_C2 ==
    /\ \E i \in TraceIdx : trace[i] = Ev("return", "video", "")
    /\ \E i \in TraceIdx : trace[i].ev = "exit" /\ trace[i].of = "pass1" /\ trace[i].how = "exit"
    /\ \E i \in TraceIdx : trace[i] = Ev("ran", "framesDir", "")
    /\ \E i \in TraceIdx : trace[i] = Ev("ran", "passLog", "")

\* C3: output.file is called only in a run every subprocess of which
\* exited successfully.  Fails on the code: execute() resolves for a
\* subprocess that a signal ended (C20), and the job goes on to emit the
\* file that subprocess left.
CE_C3 ==
    (\E i \in TraceIdx : trace[i].ev = "file") =>
        \A j \in TraceIdx : ~Failed(trace[j])

\* C4: once a subprocess has failed, the job spawns no other subprocess.
Thm_C4 ==
    \A i, j \in TraceIdx :
        (i < j /\ Threw(trace[i])) => trace[j].ev # "spawn"

\* A video job over after its frame extraction failed to spawn.
Wit_C4 ==
    /\ pc = "done"
    /\ \E i \in TraceIdx : trace[i] = Ev("exit", "extract", "error")

VideoOrder ==
    IF twoPass THEN <<"ffprobe", "extract", "upscaler", "pass1", "encode">>
    ELSE <<"ffprobe", "extract", "upscaler", "encode">>

\* C5: at most one subprocess of the job runs at any time; each is spawned
\* only when every one spawned before it has ended, and in video() they are
\* spawned in the order extraction, upscaler, pass 1 (when two-pass is
\* selected), final encode.
Thm_C5 ==
    /\ Cardinality(running) <= 1
    /\ \A i \in TraceIdx :
         trace[i].ev = "spawn" =>
            Cardinality({j \in 1..(i - 1) : trace[j].ev = "spawn"})
              = Cardinality({j \in 1..(i - 1) : trace[j].ev = "exit"})
    /\ (\E i \in TraceIdx : trace[i] = Ev("spawn", "extract", ""))
          => IsPrefix(Spawns, VideoOrder)

\* A two-pass video job that ran all four subprocesses to the end.
Wit_C5 ==
    /\ pc = "done"
    /\ twoPass
    /\ Spawns = <<"ffprobe", "extract", "upscaler", "pass1", "encode">>
    /\ \A i \in TraceIdx : ~Failed(trace[i])

----------------------------------------------------------------------------
(* Claims on one splitter closure (SpecSplitter) *)

\* Every callback made so far.
Callbacks == {outs[i][k] : <<i, k>> \in {x \in (1..Len(outs)) \X (1..1) : x[2] <= Len(outs[x[1]])}}

\* C6: every progress event (elapsed, total) the splitter emits has
\* elapsed <= total (and elapsed is a number).
Thm_C6 ==
    \A c \in Callbacks : c.cb = "progress" => c.a # NaN /\ c.a <= c.b

\* With the total known (10 s), a status line at 12 s was passed over and
\* one at exactly 10 s was reported.
Wit_C6 ==
    /\ fed = <<"duration", "frameOver", "sizeFull">>
    /\ outs[2] = <<>>
    /\ outs[3] = <<Progress(10000, 10000)>>

C7_Kept ==
    /\ (\E i \in 1..Len(fed) : IsStatusLine(ChunkText(fed[i]))) => durationWontHappen
    /\ (durationWontHappen /\ duration = 0) => \A c \in Callbacks : c.cb # "progress"

C7_Frozen == durationWontHappen => (durationWontHappen' /\ duration' = duration)

\* C7: once a chunk that starts (trimmed) with frame= or size= was
\* processed, durationWontHappen stays set and duration never changes
\* again, whatever Duration: lines follow; if no total was known by then,
\* no progress event is ever emitted.
Thm_C7 == []C7_Kept /\ [][C7_Frozen]_vars

\* A status line came first, then a whole Duration: line, then a status
\* line with a time: still no total and no progress event.
Wit_C7 ==
    /\ fed = <<"frameHalf", "duration", "frameHalf">>
    /\ durationWontHappen
    /\ duration = 0
    /\ outs = <<<<>>, <<Log>>, <<>>>>

\* All the chunks received so far, one after the other.
RECURSIVE Received(_)
Received(n) == IF n = 0 THEN <<>> ELSE Received(n - 1) \o ChunkText(fed[n])

\* The last chunk completed a Duration: line, of ten seconds, that the
\* chunk before it began at the start of a line, and the whole line lies in
\* the buffer.
SplitLineArrived ==
    /\ Len(fed) >= 2
    /\ fed[Len(fed) - 1] = "durationCut"
    /\ fed[Len(fed)] = "durationRest"
    /\ Len(fed) > 2 => Received(Len(fed) - 2)[Len(Received(Len(fed) - 2))] \in LineTerminators

\* The buffer is the last 1000 characters, at most, of all that was received.
C33_Buffer ==
    LET all == Received(Len(fed))
    IN  /\ Len(recentOutput) <= 1000
        /\ Len(recentOutput) = Len(all) \/ Len(recentOutput) = 1000
        /\ \A i \in 1..Len(recentOutput) :
              recentOutput[i] = all[Len(all) - Len(recentOutput) + i]

\* A chunk that ends before the comma of its Duration: line leaves the
\* total as it was ('00:00:1' would be a second).
C33_NeverCut ==
    (\E name \in {"durationCut", "durationHead"} : fed' = Append(fed, name))
        => duration' = duration

\* C33 as claimed: the buffer is the last 1000 characters at most of all
\* chunks received, a Duration: line split over two chunks establishes the
\* total when its last fragment arrives if the whole line lies in the
\* buffer, and a fragment ending before the comma never establishes a
\* total.  Fails on the code: after a chunk that starts with frame= or
\* size=, or behind an earlier Duration: line of zero that is still in the
\* buffer, the line establishes nothing.
CE_C33 ==
    /\ [](C33_Buffer /\ (SplitLineArrived => duration # 0))
    /\ [][C33_NeverCut]_vars

\* No chunk before the line started with frame= or size=, and no
\* Duration: line came before it.
NothingBefore ==
    /\ \A k \in 1..(Len(fed) - 2) : ~IsStatusLine(ChunkText(fed[k]))
    /\ DurationMatch(Received(Len(fed) - 2)) = <<>>

C33_Established == (SplitLineArrived /\ NothingBefore) => duration = 10000

\* C33, amended: the same, the split line establishing the total (here ten
\* seconds) provided it is the first Duration: line received and no chunk
\* starting with frame= or size= was received before it.
Thm_C33 == [](C33_Buffer /\ C33_Established) /\ [][C33_NeverCut]_vars

\* After a line longer than the buffer, whose Duration: fell out of it and
\* left no total, a line split over two chunks gave the total.
Wit_C33 ==
    /\ fed = <<"durationRestLong", "durationCut", "durationRest">>
    /\ Len(recentOutput) = 1000
    /\ duration = 10000

\* The rest of a line longer than the buffer pushed the line's beginning
\* out: no total.
C33_Pushed ==
    /\ fed = <<"durationCut", "durationRestLong">>
    /\ duration = 0

\* The text has frame= or size= after nothing but white space.
LeadsWithStatus(text) ==
    \E p \in 1..Len(text) :
        /\ \A j \in 1..(p - 1) : text[j] \in WhiteSpace
        /\ At(text, p, TxFrame) \/ At(text, p, TxSize)

\* C40: each chunk passed to the splitter makes at most one callback, a
\* progress event or a log call; a chunk that starts, trimmed, with frame=
\* or size= is never logged, whether or not a total is known, and every
\* other chunk is logged once.
Thm_C40 ==
    /\ Len(outs) = Len(fed)
    /\ \A i \in 1..Len(fed) :
         /\ Len(outs[i]) <= 1
         /\ IF LeadsWithStatus(ChunkText(fed[i]))
            THEN \A k \in 1..Len(outs[i]) : outs[i][k].cb = "progress"
            ELSE outs[i] = <<Log>>

\* With no total known, ' size= ...' made no callback at all, and the line
\* after it was logged.
Wit_C40 ==
    /\ fed = <<"sizeFull", "stream">>
    /\ duration = 0
    /\ outs = <<<<>>, <<Log>>>>

----------------------------------------------------------------------------
(* Claims on one cleaner (SpecCleaner) *)

\* The ticks that have run to their end.
TicksDone == {t \in 1..tickNo : t < tickNo \/ tick = "idle"}

\* The names tick t added to cloned.
DetectedIn(t) == {d.name : d \in {e \in detected : e.tick = t}}

\* Tick t deleted the source file of each name it detected (that the
\* snapshot holds).
DeletedAllOf(t) ==
    \A n \in DetectedIn(t) :
        (\E f \in sourceFiles.map : f.name = n) =>
            /\ [name |-> n, ext |-> MapGet(sourceFiles.map, n), tick |-> t] \in deleted
            /\ File(n, MapGet(sourceFiles.map, n)) \notin sourceDir

C8_Reports ==
    /\ Len(reports) = Cardinality(TicksDone)
    /\ \A t \in 1..Len(reports) :
         reports[t] = <<Cardinality(UNION {DetectedIn(u) : u \in 1..t}),
                        Cardinality(sourceFiles.map)>>

C8_Deletes ==
    /\ \A d \in deleted : [name |-> d.name, tick |-> d.tick] \in detected
    /\ \A d, e \in detected : d.name = e.name => d.tick = e.tick
    /\ \A n \in Frames :
         (\A f \in sourceDir : f.name # n) => n \in Filenames(destinationDir)

C8_Snapshot ==
    /\ tickNo >= 1 => ~sourceFiles.isNull
    /\ (~sourceFiles.isNull /\ tick # "readSource") => sourceFiles' = sourceFiles

\* C8 as stated: every tick that ended deleted the source file of every
\* name it newly marked.
CE_C8 == \A t \in TicksDone : DeletedAllOf(t)

\* C8, amended: the snapshot is taken once, on the first tick; every tick
\* marks the destination names not marked before and reports (marked,
\* snapshotted); a tick during which the disposer is not called deletes the
\* source file of each name it marked before it reports; a source file is
\* only deleted on the tick that first detected its name, never before the
\* name is in the destination.
Thm_C8 ==
    /\ [](/\ C8_Reports
          /\ C8_Deletes
          /\ \A t \in TicksDone : t # disposedIn => DeletedAllOf(t))
    /\ [][C8_Snapshot]_vars

\* Three ticks saw the destination grow by one file each: the reports are
\* (1,3), (2,3), (3,3) and each source file went on its own tick.
Wit_C8 ==
    /\ reports = <<<<1, 3>>, <<2, 3>>, <<3, 3>>>>
    /\ sourceDir = {}
    /\ {d.tick : d \in deleted} = {1, 2, 3}
    /\ disposeCalls = 0

C9_Stopped ==
    /\ isDisposed => (isDisposed' /\ tickNo' = tickNo /\ timeoutId' = "none")
    /\ (isDisposed /\ disposeCalls' # disposeCalls) =>
          UNCHANGED <<sourceDir, destinationDir, sourceFiles, cloned, isDisposed,
                      timeoutId, tick, newClonedFilenames, delIdx, tickNo, reports,
                      detected, deleted>>

\* C9: a further call of the disposer changes nothing, and after the first
\* call no timer is armed (the pending one is cleared, a tick in flight
\* arms none) and no tick begins.
Thm_C9 == [](isDisposed => timeoutId = "none") /\ [][C9_Stopped]_vars

\* The disposer was called twice, the first time with a tick in flight,
\* which has ended since.
Wit_C9 ==
    /\ disposeCalls = 2
    /\ disposedIn = tickNo
    /\ disposedIn > 0
    /\ tick = "idle"
    /\ Len(reports) = tickNo

\* C10 as stated: the tick that was in flight when the disposer was called
\* has, once over, deleted the source file of every name it newly marked,
\* and has reported.
CE_C10 ==
    (disposedIn > 0 /\ disposedIn \in TicksDone) =>
        /\ DeletedAllOf(disposedIn)
        /\ Len(reports) = disposedIn

C10_Ends ==
    /\ (tick # "idle" /\ tick' = "idle") => Len(reports') = Len(reports) + 1
    /\ (tick = "deleting" /\ (tick' # "deleting" \/ delIdx' # delIdx)) =>
          File(newClonedFilenames[delIdx],
               MapGet(sourceFiles.map, newClonedFilenames[delIdx])) \notin sourceDir'
    /\ isDisposed => ~(tick' = "deleting" /\ (tick # "deleting" \/ delIdx' # delIdx))

\* C10, amended: a tick in flight when the disposer is called still ends
\* with its (cloned, total) report and finishes the deletion it is waiting
\* for, but starts no other deletion: the source files of the names it
\* marked and had not reached yet stay.
Thm_C10 ==
    /\ [](disposedIn \in TicksDone => Len(reports) = disposedIn)
    /\ [][C10_Ends]_vars

\* The tick in flight at the disposer's call has reported, and the source
\* file of a name it marked is still there.
Wit_C10 ==
    /\ disposedIn > 0
    /\ disposedIn \in TicksDone
    /\ Len(reports) = disposedIn
    /\ \E n \in DetectedIn(disposedIn) : \E f \in sourceDir : f.name = n

\* C36: once the disposer of the cleaner has been called, as upscale() does
\* when it returns, no progress report of the cleaner reaches the sink any
\* more.  Fails on the code: the tick in flight at the disposer's call goes
\* on to its onProgress() when its await is over.
CE_C36 == [][isDisposed => reports' = reports]_vars

C37_Step ==
    /\ tickNo' # tickNo =>
          /\ tickNo' = tickNo + 1
          /\ tick = "idle"
          /\ Len(reports) = tickNo
    /\ (timeoutId # "pending" /\ timeoutId' = "pending") =>
          /\ tick # "idle" /\ tick' = "idle"
          /\ reports' # reports
    /\ (cloned' # cloned \/ sourceFiles' # sourceFiles) =>
          (tick # "idle" \/ tickNo' = tickNo + 1)

\* C37: at most one tick of the cleaner is in flight: while a tick is in
\* flight no timer is armed; a tick begins only when every tick before it
\* has ended with its report; the timer is armed only by the step that ends
\* a tick, after its listing, deletions and report; and the cloned set and
\* the snapshot only change inside the one tick in flight.
Thm_C37 == [](tick # "idle" => timeoutId = "none") /\ [][C37_Step]_vars

\* The second tick is deleting, the first has reported, and no timer is
\* armed.
Wit_C37 ==
    /\ tickNo = 2
    /\ tick = "deleting"
    /\ Len(reports) = 1
    /\ timeoutId = "none"
    /\ ~isDisposed

\* The destination only holds files whose names are in the snapshot.
OnlyFrames == \A n \in Filenames(destinationDir) : \E f \in sourceFiles.map : f.name = n

\* C38: over all the ticks of one cleaner the total reported is the same,
\* the size of the snapshot of the first tick, the count of cloned files
\* reported never decreases, and, the destination having held nothing but
\* files named as in the snapshot, no report has more cloned than the total.
Thm_C38 ==
    /\ \A i \in 1..Len(reports) :
         /\ reports[i][2] = reports[1][2]
         /\ reports[i][2] = Cardinality(sourceFiles.map)
         /\ OnlyFrames => reports[i][1] <= reports[i][2]
    /\ \A i, j \in 1..Len(reports) : i < j => reports[i][1] <= reports[j][1]

\* Three reports, of none, one and all three of the frames.
Wit_C38 ==
    /\ reports = <<<<0, 3>>, <<1, 3>>, <<3, 3>>>>
    /\ OnlyFrames

----------------------------------------------------------------------------
(* Claims on upscale(), image() and video() (Spec) *)

\* The job went into video(): it spawned the frame extraction.
InVideo == \E i \in TraceIdx : trace[i] = Ev("spawn", "extract", "")

Exited(of, how) == \E i \in TraceIdx : trace[i] = Ev("exit", of, how)

\* C11: in directory mode (video), a cleaner exists only while upscale()
\* awaits the upscaler, and whichever way the upscaler ends its disposer
\* has been called when upscale() returns or throws; in single-file mode
\* (image) no cleaner is ever created.
Thm_C11 ==
    /\ poller = "active" => (pc = "vid_upscaling" /\ "upscaler" \in running)
    /\ (InVideo /\ \E h \in Outcomes : Exited("upscaler", h)) => poller = "disposed"
    /\ ~InVideo => poller = "none"

\* A video job is over whose upscaler failed to spawn: the cleaner made
\* for it was disposed.
Wit_C11 ==
    /\ pc = "done"
    /\ InVideo
    /\ Exited("upscaler", "error")
    /\ poller = "disposed"

\* The number each value of options.scale asks for.
Requested ==
    [o \in ScaleOptions |->
        CASE o = "1" -> 1 [] o = "2" -> 2 [] o = "4" -> 4
          [] o = "8" -> 8 [] o = "16" -> 16 [] o = "32" -> 32]

Spawned(of) == \E i \in TraceIdx : trace[i].ev = "spawn" /\ trace[i].of = of

\* C12: upscale() runs the binary at, and resolves with, the requested
\* scale for the three waifu2x models; 2 for realesr-animevideov3 exactly
\* when 2 is requested and else 4; 4 for realesrgan-x4plus and
\* realesrgan-x4plus-anime.  With any other model it throws: an error is
\* reported and no upscaler is spawned.
Thm_C12 ==
    /\ Spawned("upscaler") =>
          /\ modelOpt \in Waifu2xModels => upScale = Requested[scaleOpt]
          /\ modelOpt = "realesr-animevideov3" =>
                (upScale = 2 <=> scaleOpt = "2") /\ (upScale # 2 => upScale = 4)
          /\ modelOpt \in {"realesrgan-x4plus", "realesrgan-x4plus-anime"} => upScale = 4
          /\ modelOpt \in Waifu2xModels \cup RealesrganModels
    /\ Exited("upscaler", "ok") => currentScale = upScale
    /\ (modelOpt # "" /\ modelOpt \notin Waifu2xModels \cup RealesrganModels) =>
          /\ ~Spawned("upscaler")
          /\ \E i \in TraceIdx : trace[i] = Ev("error", "upscale", "")
          /\ currentScale = 1

\* A job is over that asked realesr-animevideov3 for 2x and got 2x.
Wit_C12 ==
    /\ pc = "done"
    /\ modelOpt = "realesr-animevideov3"
    /\ scaleOpt = "2"
    /\ Exited("upscaler", "ok")
    /\ currentScale = 2

\* image() is past lines 204-213: it has read options.image.format.
ImageEncoded == formatOpt # ""

\* C13: in image() a rescale filter is built exactly when the achieved
\* scale differs from the requested one, and it targets the original width
\* and height times the requested scale, rounded.
Thm_C13 ==
    /\ ~ImageEncoded => rescaleFilter.undefined
    /\ ImageEncoded =>
          /\ rescaleFilter.undefined <=> currentScale = Requested[scaleOpt]
          /\ ~rescaleFilter.undefined =>
                /\ rescaleFilter.width = input.width * Requested[scaleOpt]
                /\ rescaleFilter.height = input.height * Requested[scaleOpt]

\* 2x was asked of a 4x-only model on a 640x480 image: the achieved scale
\* is 4 and the filter targets 1280x960.
Wit_C13 ==
    /\ ImageEncoded
    /\ scaleOpt = "2"
    /\ modelOpt = "realesrgan-x4plus"
    /\ input.width = 640
    /\ input.height = 480
    /\ currentScale = 4
    /\ rescaleFilter = [undefined |-> FALSE, width |-> 1280, height |-> 960]

Returned(of) == \E i \in TraceIdx : trace[i] = Ev("return", of, "")

\* The image is a png, jpg or webp, png was asked for, and the upscaler
\* gave the scale that was asked for.
DirectPng ==
    /\ input.container \in {"png", "jpg", "webp"}
    /\ formatOpt = "png"
    /\ currentScale = Requested[scaleOpt]

\* C16: for a png, jpg or webp image, when the achieved scale is the
\* requested one and the format asked for is png, image() runs one
\* subprocess, the upscaler (after the job's ffprobe), no transcoder and no
\* conversion, builds no rescale filter, and returns the upscaler's own
\* output file with container png.
Thm_C16 ==
    DirectPng =>
        /\ Spawns = <<"ffprobe", "upscaler">>
        /\ rescaleFilter.undefined
        /\ Returned("image") => result = [tmpPath |-> "upscaled", container |-> "png"]

\* A png image upscaled 2x to png has been returned by image().
Wit_C16 ==
    /\ DirectPng
    /\ input.container = "png"
    /\ scaleOpt = "2"
    /\ Exited("upscaler", "ok")
    /\ Returned("image")
    /\ result.tmpPath = "upscaled"

\* The transcoder runs of video() after the upscaler, in order.
Encodes == SelectSeq(Spawns, LAMBDA of : of \in {"pass1", "encode"})

\* video() returned a result.
VideoSucceeded == Returned("video") /\ result # Void

\* No subtitles, inherit container on, an mp4 input, codec h264.
Mp4H264 ==
    /\ ~input.hasSubtitles
    /\ videoOptions.inheritContainer
    /\ input.container = "mp4"
    /\ videoOptions.codec = "h264"

\* C17: a video() that succeeds has run, after the upscaler, one encode
\* when two-pass is not selected and pass 1 then pass 2 when it is; two-pass
\* is selected only for the codecs vp8 and vp9, each with its own two-pass
\* option on.  With no subtitles, inherit container on, an mp4 input and
\* codec h264 one encode runs and the result's container is mp4.
Thm_C17 ==
    /\ VideoSucceeded =>
          /\ Encodes = IF twoPass THEN <<"pass1", "encode">> ELSE <<"encode">>
          /\ Spawns = <<"ffprobe", "extract", "upscaler">> \o Encodes
          /\ Mp4H264 => (Encodes = <<"encode">> /\ result.container = "mp4")
    /\ videoOptions.preferredContainer # "" =>
          (twoPass <=> (videoOptions.codec \in {"vp8", "vp9"} /\ videoOptions.twoPass))
    /\ videoOptions.preferredContainer = "" => ~twoPass /\ Encodes = <<>>

\* An mp4 without subtitles was encoded to h264 in one pass, every
\* subprocess having exited with code 0.
Wit_C17 ==
    /\ VideoSucceeded
    /\ Mp4H264
    /\ ~videoOptions.twoPass
    /\ Exited("encode", "ok")
    /\ \A i \in TraceIdx : ~Failed(trace[i])
    /\ result = [tmpPath |-> "vidOut", container |-> "mp4"]

\* The temporary files and directories a job creates.
TempPaths == {"converted", "upscaled", "imgOut", "framesDir", "passLog", "vidOut"}

Registrations(p) == Cardinality({i \in TraceIdx : trace[i] = Ev("task", p, "")})

\* C18: in every state each temporary file or directory of the job that is
\* on disk has exactly one entry registered for it in the ledger, except
\* the artifact returned to the caller (and, read widely, the working file
\* image() has yet to use).  Fails on the code: image() never registers the
\* upscaler's output file.
CE_C18 ==
    \A p \in fs \cap TempPaths :
        \/ Registrations(p) = 1
        \/ result.tmpPath = p
        \/ workingPath = p /\ ~Returned("image") /\ pc # "img_return"

\* The transcode of image() exited nonzero or failed to spawn, after an
\* upscaler that exited with code 0.
TranscodeFailed ==
    /\ Exited("upscaler", "ok")
    /\ \E i \in TraceIdx : trace[i].of = "transcode" /\ Threw(trace[i])

\* C19: when the transcode of image() fails after the upscaler succeeded,
\* then once image() has returned the error has been reported, the partial
\* transcode output is deleted, the upscaler's output file is not left on
\* disk, and no result is returned.  Fails on the code: the catch registers
\* the transcode output only, and the upscaler's file stays on disk.
CE_C19 ==
    (TranscodeFailed /\ Returned("image")) =>
        /\ \E i \in TraceIdx : trace[i] = Ev("error", "transcode", "")
        /\ "imgOut" \notin fs
        /\ "upscaled" \notin fs
        /\ result = Void

\* checkSaveAsPathOptions() threw.
ValidationFailed == \E i \in TraceIdx : trace[i].ev = "throws"

\* C22: whenever the validation of the destination template fails, the job
\* reports the configuration error and ends with no subprocess run and no
\* output file.  Fails on the code: the catch returns only for a
\* TemplateError, and after any other error the job goes on to the prober.
CE_C22 ==
    ValidationFailed =>
        /\ \E i \in TraceIdx : trace[i] = Ev("error", "template", "")
        /\ pc = "done"
        /\ Spawns = <<>>
        /\ \A i \in TraceIdx : trace[i].ev # "file"

\* The calls of output.error so far, and whether output.file was called.
Errors == SelectSeq(trace, LAMBDA e : e.ev = "error")
FileEmitted == \E i \in TraceIdx : trace[i].ev = "file"

\* C24: in one run of a job output.error is called at most once, and no
\* run both reports an error and emits an output file.
Thm_C24 ==
    /\ Len(Errors) <= 1
    /\ ~(Len(Errors) > 0 /\ FileEmitted)

\* A job is over whose image transcode exited nonzero: one error was
\* reported and no file emitted.
Wit_C24 ==
    /\ pc = "done"
    /\ Exited("transcode", "exit")
    /\ Errors = <<Ev("error", "transcode", "")>>
    /\ ~FileEmitted

\* ffprobe() described the input as something that is neither an image nor
\* a video.
ProbedOther == input \in AudioMetas

\* C28: when the prober describes the input as neither an image nor a
\* video, the job throws: neither image() nor video() runs, nothing but
\* ffprobe is ever spawned, the ledger stays empty, no error is reported by
\* output.error and no file is emitted.
Thm_C28 ==
    ProbedOther =>
        /\ pc = "threw"
        /\ Spawns = <<"ffprobe">>
        /\ running = {}
        /\ result = Void
        /\ tasks = <<>>
        /\ ~FileEmitted
        /\ \A i \in TraceIdx : trace[i].of \in {"validation", "ffprobe"}

\* The job threw on an audio file, after ffprobe ended well.
Wit_C28 ==
    /\ ProbedOther
    /\ pc = "threw"
    /\ trace[Len(trace)] = Ev("exit", "ffprobe", "ok")

\* C29: when two-pass is selected, the deletion of the pass-log files is
\* registered in the ledger before pass 1 is spawned, pass 1 runs with no
\* audio into the null sink, and the final encode (pass 2) is spawned only
\* after pass 1 exited successfully; when pass 1 fails, an error is
\* reported, pass 2 is never spawned, and once video() has returned the
\* pass log and the frames directory have been run from the ledger and are
\* gone.  Fails on the code: a pass 1 that a signal ended resolves
\* execute() (C20), and pass 2 is started after it.
CE_C29 ==
    \A i \in TraceIdx :
        (trace[i].ev = "spawn" /\ trace[i].of = "pass1") =>
            /\ twoPass
            /\ \E j \in 1..(i - 1) : trace[j] = Ev("task", "passLog", "")
            /\ trace[i].how = Pass1Sink
            /\ \A k \in TraceIdx :
                  (trace[k].ev = "spawn" /\ trace[k].of = "encode") =>
                     \E j \in (i + 1)..(k - 1) : trace[j] = Ev("exit", "pass1", "ok")
            /\ \A j \in TraceIdx :
                  (trace[j].of = "pass1" /\ Failed(trace[j])) =>
                     /\ j < Len(trace) /\ trace[j + 1] = Ev("error", "pass1", "")
                     /\ ~Spawned("encode")
                     /\ Returned("video") =>
                           /\ \E k \in TraceIdx : trace[k] = Ev("ran", "passLog", "")
                           /\ \E k \in TraceIdx : trace[k] = Ev("ran", "framesDir", "")
                           /\ fs \cap {"framesDir", "passLog"} = {}

\* The same with a failure of pass 1 being one that execute() rejects on, a
\* nonzero exit code or an error of the spawn: this holds.
C29_Threw ==
    \A i \in TraceIdx :
        (trace[i].ev = "spawn" /\ trace[i].of = "pass1") =>
            /\ twoPass
            /\ \E j \in 1..(i - 1) : trace[j] = Ev("task", "passLog", "")
            /\ trace[i].how = Pass1Sink
            /\ \A k \in TraceIdx :
                  (trace[k].ev = "spawn" /\ trace[k].of = "encode") =>
                     \E j \in (i + 1)..(k - 1) :
                        trace[j].ev = "exit" /\ trace[j].of = "pass1" /\ ~Threw(trace[j])
            /\ \A j \in TraceIdx :
                  (trace[j].of = "pass1" /\ Threw(trace[j])) =>
                     /\ j < Len(trace) /\ trace[j + 1] = Ev("error", "pass1", "")
                     /\ ~Spawned("encode")
                     /\ Returned("video") =>
                           /\ \E k \in TraceIdx : trace[k] = Ev("ran", "passLog", "")
                           /\ \E k \in TraceIdx : trace[k] = Ev("ran", "framesDir", "")
                           /\ fs \cap {"framesDir", "passLog"} = {}

C30_Kept ==
    /\ Returned("video")
    /\ Exited("encode", "ok")
    /\ result.tmpPath = "vidOut"
    /\ "vidOut" \in fs
    /\ \E k \in TraceIdx : trace[k] = Ev("drained", "", "")

\* image() is past its test of the input's container (line 164).
ImageBegun == input \in ImageMetas /\ pc # "image"

C31_AfterUpscaler ==
    /\ Exited("convert", "ok")
    /\ Exited("upscaler", "exit")
    /\ pc = "img_return"
    /\ "converted" \notin fs

\* The names of the stages emitted, in order.
Stages ==
    LET events == SelectSeq(trace, LAMBDA e : e.ev = "stage")
    IN  [i \in 1..Len(events) |-> events[i].of]

\* The orders in which a video job emits its stages to the end, given the
\* name of the stage of upscale().
StageOrders(upscaling) ==
    IF twoPass
    THEN {<<"extracting frames", upscaling, "encoding video", "pass 1", "pass 2", "cleaning up">>,
          <<"extracting frames", upscaling, "encoding video", "pass 1", "cleaning up">>}
    ELSE {<<"extracting frames", upscaling, "encoding video", "cleaning up">>}

\* The stages of a video job are the beginning of one of its orders, and
\* once video() has returned from its encoding stage 'cleaning up' was last.
StagesInOrder(upscaling) ==
    LET stages == Stages
    IN  input \in VideoMetas =>
            /\ \E order \in StageOrders(upscaling) : IsPrefix(stages, order)
            /\ (Returned("video") /\ \E i \in 1..Len(stages) : stages[i] = "encoding video")
                  => stages[Len(stages)] = "cleaning up"

JobPaths == TempPaths \cup {"framesIn", "framesOut"}

\* C35: in every run, however it goes, nothing the job registers in the
\* ledger, runs from it, deletes as its working file or wipes with
\* prepareEmptyDir() is the input file, and all its subprocesses leave on
\* disk are its temporary files: the input file is left as it was.
Thm_C35 ==
    /\ \A i \in TraceIdx :
         trace[i].ev \in {"task", "ran", "delete", "wipe"} =>
            trace[i].of # "input" /\ trace[i].of \in JobPaths
    /\ \A i \in 1..Len(tasks) : tasks[i].id # "input"
    /\ fs \subseteq TempPaths
    /\ pc = "img_transcoding" => workingPath # "input"

\* A png was upscaled from the input file itself and transcoded, and the
\* working file deleted after the transcode was the upscaler's output.
Wit_C35 ==
    /\ input \in ImageMetas /\ input.container = "png"
    /\ ~Spawned("convert")
    /\ Exited("transcode", "ok")
    /\ \E i \in TraceIdx : trace[i] = Ev("delete", "upscaled", "")
    /\ pc = "done"

----------------------------------------------------------------------------
(* Claims on the choice of the container (SpecContainer) *)

ContainerIsChosen == pc = "off" /\ outputContainer # ""

\* C14: a video with a subtitle stream, processed with ensureSubtitles on,
\* gets the output container mkv, whatever its container and extension and
\* whatever inheritContainer and preferredContainer are.
Thm_C14 ==
    (ContainerIsChosen /\ input.hasSubtitles /\ videoOptions.ensureSubtitles)
        => outputContainer = "mkv"

\* An mp4 with subtitles, inheritContainer on and webm preferred, goes to
\* mkv.
Wit_C14 ==
    /\ ContainerIsChosen
    /\ input = [container |-> "mp4", extension |-> "mp4", hasSubtitles |-> TRUE]
    /\ videoOptions = [ensureSubtitles |-> TRUE, inheritContainer |-> TRUE,
                       preferredContainer |-> "webm"]
    /\ outputContainer = "mkv"

\* The subtitles rule does not apply.
NoSubtitlesRule == ~(input.hasSubtitles /\ videoOptions.ensureSubtitles)

\* C15: when the subtitles rule does not apply, the output container is
\* the input's container if inheritContainer is on and that container is
\* mp4, webm, mkv or gif, where the id 'matroska,webm' counts as mkv for a
\* file with extension mkv or with subtitle streams and as webm otherwise;
\* in every other case it is preferredContainer.
Thm_C15 ==
    (ContainerIsChosen /\ NoSubtitlesRule) =>
        /\ ~videoOptions.inheritContainer =>
              outputContainer = videoOptions.preferredContainer
        /\ videoOptions.inheritContainer =>
              /\ input.container \in {"mp4", "gif"} => outputContainer = input.container
              /\ input.container = "avi" =>
                    outputContainer = videoOptions.preferredContainer
              /\ input.container = "matroska,webm" =>
                    /\ (input.extension = "mkv" \/ input.hasSubtitles) =>
                          outputContainer = "mkv"
                    /\ (input.extension # "mkv" /\ ~input.hasSubtitles) =>
                          outputContainer = "webm"

\* A 'matroska,webm' input named .webm without subtitles, inheritContainer
\* on and mp4 preferred, stays webm.
Wit_C15 ==
    /\ ContainerIsChosen
    /\ input = [container |-> "matroska,webm", extension |-> "webm", hasSubtitles |-> FALSE]
    /\ videoOptions.inheritContainer
    /\ videoOptions.preferredContainer = "mp4"
    /\ outputContainer = "webm"

----------------------------------------------------------------------------
(* Claims on execute() (SpecExecute).                                      *)

Closed(code) ==
    \E i \in 1..Len(cpEvents) : cpEvents[i].type = "close" /\ cpEvents[i].code = code

\* C20: execute() fails whenever the spawned process emits an error, fails
\* whenever the process ends with a nonzero exit status, and succeeds only
\* when the process ends with exit code zero.  (An error counts here when it
\* is the first event of the process: `done` hears only the first.)  The last
\* part fails on the code: a 'close' with code null, the process having been
\* ended by a signal, passes `code != null && code > 0` and resolves.
CE_C20 ==
    /\ (\E n \in {1, 2} : Closed(Code(n))) => promise.state = "rejected"
    /\ (Len(cpEvents) > 0 /\ cpEvents[1].type = "error") => promise.state = "rejected"
    /\ promise.state = "resolved" => Closed(Code(0))

\* What the process wrote on a stream, chunk by chunk.
WrittenOn(stream) ==
    SelectSeq(cpEvents, LAMBDA e : e.type = "data" /\ e.of = stream)

\* C21: an execute() that failed because of a nonzero exit failed with an
\* error that carries the exit code and the captured output of the process:
\* what it wrote on stderr when there is any, else what it wrote on stdout.
\* Fails on the code: the error is made of the exit code alone.
CE_C21 ==
    (promise.state = "rejected" /\ promise.with = "Process exited with code") =>
        /\ Closed(Code(promise.code))
        /\ promise.output = IF WrittenOn("stderr") # <<>> THEN WrittenOn("stderr")
                             ELSE WrittenOn("stdout")

\* The 'error' and 'close' events of the child process, in order.
Endings == SelectSeq(cpEvents, LAMBDA e : e.type \in {"error", "close"})

C39_First ==
    IF Endings = <<>> THEN promise.state = "pending"
    ELSE IF Endings[1].type = "error" THEN promise.state = "rejected" /\ promise.with = "err"
    ELSE /\ promise.with # "err"
         /\ promise.state = "rejected" <=> (~Endings[1].code.isNull /\ Endings[1].code.n > 0)

\* C39: the first of the child's 'error' and 'close' events decides the
\* outcome of execute() and no later event changes it: after an 'error' a
\* 'close' with code 0 leaves the promise rejected with that error, and
\* after a 'close' an 'error' leaves it as the close settled it.
Thm_C39 == []C39_First /\ [][promise.state # "pending" => promise' = promise]_vars

\* The process emitted 'error' and then 'close' with code 0: rejected.
Wit_C39 ==
    /\ Len(Endings) = 2
    /\ Endings[1].type = "error"
    /\ Endings[2].type = "close" /\ Endings[2].code = Code(0)
    /\ promise.state = "rejected"

\* The process closed with code 0 and then emitted 'error': resolved.
C39_CloseFirst ==
    /\ Len(Endings) = 2
    /\ Endings[1].type = "close" /\ Endings[1].code = Code(0)
    /\ Endings[2].type = "error"
    /\ promise.state = "resolved"

----------------------------------------------------------------------------
(* Claims on isoTimeToMS() (SpecIso).                                      *)

Returns(stamp, ms) == isoText = stamp => isoTime.ms = ms

\* C23: for every timestamp H:MM:SS.fff, MM:SS.fff, SS.fff and SS,
\* isoTimeToMS returns hours x 3,600,000 + minutes x 60,000 + seconds x
\* 1,000 + the fraction in milliseconds, an absent component counting for
\* zero: 1:30:40.500 gives 5,440,500, 00:00.250 gives 250, 45 gives 45,000.
Thm_C23 ==
    isoTime.returned =>
        /\ \A c \in StampParts :
              Stamp(c) = isoText =>
                 isoTime.ms = c.h.val * 3600000 + c.m.val * 60000 + c.s.val * 1000 + c.f.val
        /\ Returns(<<"1", ":", "3", "0", ":", "4", "0", ".", "5", "0", "0">>, 5440500)
        /\ Returns(<<"0", "0", ":", "0", "0", ".", "2", "5", "0">>, 250)
        /\ Returns(<<"4", "5">>, 45000)

\* 1:30:40.500 was converted to 5,440,500 ms.
Wit_C23 ==
    /\ isoTime.returned
    /\ isoText = <<"1", ":", "3", "0", ":", "4", "0", ".", "5", "0", "0">>
    /\ isoTime.ms = 5440500

----------------------------------------------------------------------------
(* Claims on the temporary paths of two jobs (SpecPaths).                  *)

Kinds == Written \cup Removed

\* C25: two jobs with different ids at work at once on the same input file
\* write and remove disjoint sets of temporary paths: no path of one is a
\* path of the other or lies below one, and no write, directory wipe or
\* deletion of one job overwrites or removes a file of the other.
Thm_C25 ==
    /\ ~clobbered
    /\ \A e \in disk : \E kind \in Written : e.path = PathOf(kind, jobIds[e.owner])
    /\ jobIds # <<>> =>
          \A k1, k2 \in Kinds : ~Under(PathOf(k1, jobIds[1]), PathOf(k2, jobIds[2]))
                                /\ ~Under(PathOf(k2, jobIds[2]), PathOf(k1, jobIds[1]))

\* Jobs a and a1 both have their encode output on disk, job a its pass log
\* and job a1 an extracted frame, job a having no frame.
Wit_C25 ==
    /\ jobIds = <<<<"a">>, <<"a", "1">>>>
    /\ disk = {[path |-> PathOf("vidOut", <<"a">>), owner |-> 1],
               [path |-> PathOf("passLog", <<"a">>), owner |-> 1],
               [path |-> PathOf("vidOut", <<"a", "1">>), owner |-> 2],
               [path |-> PathOf("frameIn", <<"a", "1">>), owner |-> 2]}

----------------------------------------------------------------------------
(* Claims on repeated cleanup() calls of one maid (SpecRecall).            *)

RanIdx == 1..Len(ran)

\* C26 as stated: forget() empties the ledger and executes nothing, a
\* cleanup() called on an emptied ledger executes nothing, and over any
\* sequence of task(), cleanup() and forget() calls no registered task is
\* executed more than once.  The last part fails for a cleanup() called
\* while an earlier one is still awaiting a task: both walk the same array.
CE_C26 == \A i, j \in RanIdx : i # j => ran[i].id # ran[j].id

\* A step that empties a ledger with no cleanup() starting, going on or
\* ending: a forget().
ForgetStep ==
    /\ tasks # <<>>
    /\ tasks' = <<>>
    /\ \A c \in DOMAIN calls : calls'[c].st = calls[c].st /\ calls'[c].idx = calls[c].idx

\* No task is executed twice by one cleanup(), nor by two of which neither
\* was called while another was running; a cleanup() called on an empty
\* ledger executes nothing.
C26_Once ==
    /\ \A i, j \in RanIdx :
          (i # j /\ ran[i].id = ran[j].id) =>
             /\ ran[i].call # ran[j].call
             /\ calls[ran[i].call].over \/ calls[ran[j].call].over
    /\ \A c \in DOMAIN calls :
          (calls[c].st = "resolved" /\ calls[c].snap = <<>>) =>
             \A i \in RanIdx : ran[i].call # c

\* C26, amended: forget() empties the ledger without executing any task, a
\* cleanup() after a forget() or a completed cleanup() executes nothing of
\* what was in the ledger before, and a registered task is executed more
\* than once only by a cleanup() called while another is still running.
Thm_C26 == []C26_Once /\ [][ForgetStep => ran' = ran]_vars

\* Two tasks were cleaned up by one cleanup(), and a second cleanup()
\* called after it resolved, on the emptied ledger, executed nothing.
Wit_C26 ==
    /\ calls[1].st = "resolved" /\ Len(calls[1].snap) = 2
    /\ calls[2].st = "resolved" /\ calls[2].snap = <<>> /\ ~calls[2].over
    /\ Len(ran) = 2
    /\ \A i \in RanIdx : ran[i].call = 1

----------------------------------------------------------------------------
(* Claims on the audio arguments of video() (SpecAudio).                   *)

AudioIsChosen == pc = "off" /\ outputContainer # ""

\* C27: for a video with audio streams and an output that is not a gif, the
\* audio is copied whenever the input's container is the output container,
\* an mkv input encoded to mkv and a webm input encoded to webm included,
\* and else re-encoded with, for each stream, the configured bitrate of a
\* channel times the stream's channels.  Fails on the code: the test is on
\* input.container, which for mkv and webm is "matroska,webm" and never
\* the output container.
CE_C27 ==
    (AudioIsChosen /\ audioStreams # <<>> /\ outputContainer # "gif") =>
        IF InputContainer(input) = outputContainer
        THEN audioArgs.codec = "copy"
        ELSE /\ audioArgs.codec = "audioCodec"
             /\ audioArgs.bitrates =
                   [i \in 1..Len(audioStreams) |-> audioChannelBitrate * audioStreams[i]]

----------------------------------------------------------------------------
(* Claims on the stderr handler of upscale() (SpecStderr).                 *)

\* A number with a `%` right after it stands in the text.
HasPercentToken(text) ==
    \E p \in 1..(Len(text) - 1) : text[p] \in Digits /\ text[p + 1] = "%"

C32_DirMode ==
    /\ poller = "active"
    /\ Len(fed) >= 1
    /\ fed[1] = "half" /\ outs[1] = <<>>

====
